---------------------------- MODULE Spec2Model ----------------------------
(***************************************************************************)
(* Model of the condition evaluation engine src/lib/server/cond_eval.c:    *)
(* the iterative walker cond_eval over a condition tree, the evaluation of *)
(* bare templates (cond_eval_tmpl) and of maps (cond_eval_map,             *)
(* cond_realize_tmpl, cond_normalise_and_cmp, cond_cmp_values,             *)
(* cond_do_regex), with the collaborators (expansion engine, attribute     *)
(* store, regex engine, value-box primitives, legacy pair comparator)      *)
(* modelled at their interface.                                            *)
(***************************************************************************)
EXTENDS Integers, Sequences, FiniteSets, TLC

(***************************************************************************)
(* Bounds of the model.                                                    *)
(***************************************************************************)
\* largest number of real (non-marker) nodes of a generated condition tree
MaxNodes == 3
\* largest number of instances of one attribute on a request
MaxInst == 3

(***************************************************************************)
(* Strings are sequences of characters; value boxes carry a type tag.      *)
(***************************************************************************)
Digits == {"0", "1", "2", "3", "4", "5", "6", "7", "8", "9"}

DigitVal(ch) ==
    CASE ch = "0" -> 0 [] ch = "1" -> 1 [] ch = "2" -> 2 [] ch = "3" -> 3
      [] ch = "4" -> 4 [] ch = "5" -> 5 [] ch = "6" -> 6 [] ch = "7" -> 7
      [] ch = "8" -> 8 [] ch = "9" -> 9 [] OTHER -> 0

DigitChar(n) ==
    CASE n = 0 -> "0" [] n = 1 -> "1" [] n = 2 -> "2" [] n = 3 -> "3"
      [] n = 4 -> "4" [] n = 5 -> "5" [] n = 6 -> "6" [] n = 7 -> "7"
      [] n = 8 -> "8" [] OTHER -> "9"

\* byte value of a character (the order memcmp compares by)
CharOrd(ch) ==
    CASE ch = "!" -> 33 [] ch = "(" -> 40 [] ch = "-" -> 45 [] ch = "." -> 46
      [] ch \in Digits -> 48 + DigitVal(ch)
      [] ch = "\\" -> 92 [] ch = "a" -> 97 [] ch = "b" -> 98 [] ch = "r" -> 114
      [] OTHER -> 120

RECURSIVE ParseNat(_)
ParseNat(s) ==
    IF s = <<>> THEN 0
    ELSE 10 * ParseNat(SubSeq(s, 1, Len(s) - 1)) + DigitVal(s[Len(s)])

RECURSIVE NatToStr(_)
NatToStr(n) ==
    IF n < 10 THEN <<DigitChar(n)>>
    ELSE NatToStr(n \div 10) \o <<DigitChar(n % 10)>>

\* fr_type_t values used by the model; FR_TYPE_INVALID means "no type"
FR_TYPE_INVALID == "invalid"
FR_TYPE_STRING == "string"
FR_TYPE_UINT32 == "uint32"
FR_TYPE_UINT64 == "uint64"

IsUint(t) == t \in {FR_TYPE_UINT32, FR_TYPE_UINT64}

StrBox(s) == [type |-> FR_TYPE_STRING, str |-> s, num |-> 0]
NumBox(t, n) == [type |-> t, str |-> <<>>, num |-> n]
\* a NULL fr_value_box_t pointer
NULLBOX == [type |-> "NULL", str |-> <<>>, num |-> 0]
\* the box left by a cast that failed
FAILBOX == [type |-> "FAIL", str |-> <<>>, num |-> 0]

(***************************************************************************)
(* all_digits: an optional leading '-' followed by decimal digits only;    *)
(* the empty string is not a number.                                       *)
(***************************************************************************)
all_digits(string) ==
    IF string = <<>> THEN FALSE
    ELSE LET p == IF string[1] = "-" THEN Tail(string) ELSE string
         IN  \A i \in 1..Len(p) : p[i] \in Digits

(***************************************************************************)
(* Typed-value primitives (collaborators).                                 *)
(***************************************************************************)
\* fr_value_box_cast: the box cast to dst_type, or FAILBOX.  A string casts to
\* an unsigned integer when it is a non-empty string of decimal digits (the
\* numbers of the model stay below the limit of either width); an unsigned
\* integer casts to its decimal text
fr_value_box_cast(dst_type, src) ==
    CASE src.type = dst_type -> src
      [] src.type = FR_TYPE_STRING /\ IsUint(dst_type) ->
            IF src.str # <<>> /\ (\A i \in 1..Len(src.str) : src.str[i] \in Digits)
            THEN NumBox(dst_type, ParseNat(src.str))
            ELSE FAILBOX
      [] IsUint(src.type) /\ dst_type = FR_TYPE_STRING -> StrBox(NatToStr(src.num))
      [] IsUint(src.type) /\ IsUint(dst_type) -> NumBox(dst_type, src.num)
      [] OTHER -> FAILBOX

\* memcmp order on strings, then length: -1, 0 or 1
RECURSIVE StrCmp(_, _)
StrCmp(a, b) ==
    IF a = <<>> /\ b = <<>> THEN 0
    ELSE IF a = <<>> THEN -1
    ELSE IF b = <<>> THEN 1
    ELSE IF CharOrd(a[1]) < CharOrd(b[1]) THEN -1
    ELSE IF CharOrd(a[1]) > CharOrd(b[1]) THEN 1
    ELSE StrCmp(Tail(a), Tail(b))

\* fr_value_box_cmp: order of two boxes of one type
BoxCmp(a, b) ==
    IF a.type = FR_TYPE_STRING THEN StrCmp(a.str, b.str)
    ELSE IF a.num < b.num THEN -1 ELSE IF a.num > b.num THEN 1 ELSE 0

\* the comparison operators of a map; T_OP_REG_EQ is the regex match
T_OP_CMP_EQ == "=="
T_OP_NE == "!="
T_OP_LT == "<"
T_OP_GT == ">"
T_OP_LE == "<="
T_OP_GE == ">="
T_OP_REG_EQ == "=~"

CmpOps == {T_OP_CMP_EQ, T_OP_NE, T_OP_LT, T_OP_GT, T_OP_LE, T_OP_GE}

\* fr_value_box_cmp_op: 1 true, 0 false, -1 when the operands cannot be compared
fr_value_box_cmp_op(op, a, b) ==
    IF a.type \notin {FR_TYPE_STRING, FR_TYPE_UINT32, FR_TYPE_UINT64}
       \/ a.type # b.type \/ op \notin CmpOps
    THEN -1
    ELSE LET o == BoxCmp(a, b)
             t == CASE op = T_OP_CMP_EQ -> o = 0
                    [] op = T_OP_NE -> o # 0
                    [] op = T_OP_LT -> o < 0
                    [] op = T_OP_GT -> o > 0
                    [] op = T_OP_LE -> o <= 0
                    [] OTHER -> o >= 0
         IN  IF t THEN 1 ELSE 0


(***************************************************************************)
(* Regex engine (collaborator).  A pattern is a sequence of characters:    *)
(* '.' matches any character, '\' makes the next character literal, any    *)
(* other character matches itself; the match is unanchored.  A pattern     *)
(* holding an unescaped '(' does not compile (unbalanced group); a subject *)
(* holding the byte '!' (an invalid encoding) makes the engine report an   *)
(* execution error.                                                        *)
(***************************************************************************)
\* fixed fallback number of capture groups of a request
REQUEST_MAX_REGEX == 32

RECURSIVE PatToks(_)
PatToks(p) ==
    IF p = <<>> THEN <<>>
    ELSE IF p[1] = "\\" /\ Len(p) >= 2
         THEN <<[any |-> FALSE, ch |-> p[2]]>> \o PatToks(SubSeq(p, 3, Len(p)))
    ELSE <<[any |-> p[1] = ".", ch |-> p[1]]>> \o PatToks(Tail(p))

\* regex_compile: TRUE when the pattern compiles
regex_compile(pattern) ==
    /\ pattern # <<>>
    /\ \A i \in 1..Len(pattern) :
          pattern[i] = "(" => (i > 1 /\ pattern[i - 1] = "\\")

MatchAt(toks, subject, i) ==
    /\ i + Len(toks) - 1 <= Len(subject)
    /\ \A j \in 1..Len(toks) : toks[j].any \/ toks[j].ch = subject[i + j - 1]

\* regex_subcapture_count: the patterns of the model hold no sub-group
regex_subcapture_count(preg) == 0

\* regex_exec: [ret |-> 1, caps |-> captures] on a match (slot 0 is the whole
\* match), ret 0 on no match, ret -1 on an execution error
regex_exec(preg, subject, nslots) ==
    LET toks == PatToks(preg)
        hits == {i \in 1..(Len(subject) + 1) : MatchAt(toks, subject, i)}
    IN  IF \E i \in 1..Len(subject) : subject[i] = "!"
        THEN [ret |-> -1, caps |-> <<>>]
        ELSE IF hits = {} THEN [ret |-> 0, caps |-> <<>>]
        ELSE LET i == CHOOSE h \in hits : \A k \in hits : h <= k
                 all == <<SubSeq(subject, i, i + Len(toks) - 1)>>
             IN  [ret |-> 1,
                  caps |-> SubSeq(all, 1, IF nslots < Len(all) THEN nslots ELSE Len(all))]

\* regex_sub_to_request: publish the captures of a match, or clear the slots
regex_sub_to_request(st, caps) == [st EXCEPT !.captures = caps]

(***************************************************************************)
(* regex_escape: escape the regex metacharacters of a string into a buffer *)
(* of outlen bytes.                                                        *)
(***************************************************************************)
RegexMeta == {"\\", ".", "*", "+", "?", "|", "^", "$", "[", "{", "("}

\* size of the buffer the expansion engine hands to the escape function
EscapeOutLen == 8

RECURSIVE regex_escape(_, _)
regex_escape(in, outlen) ==
    IF in = <<>> \/ outlen < 2 THEN <<>>
    ELSE IF in[1] \in RegexMeta
         THEN IF outlen < 3 THEN <<>>
              ELSE <<"\\", in[1]>> \o regex_escape(Tail(in), outlen - 2)
    ELSE <<in[1]>> \o regex_escape(Tail(in), outlen - 1)

(***************************************************************************)
(* Templates, the attribute dictionary and the request.                    *)
(***************************************************************************)
TMPL_TYPE_ATTR == "ATTR"
TMPL_TYPE_LIST == "LIST"
TMPL_TYPE_DATA == "DATA"
TMPL_TYPE_XLAT == "XLAT"
TMPL_TYPE_EXEC == "EXEC"
TMPL_TYPE_REGEX == "REGEX"
TMPL_TYPE_REGEX_XLAT == "REGEX_XLAT"
TMPL_TYPE_UNRESOLVED == "UNRESOLVED"

\* the attributes of the dictionary and their declared types
Attrs == {"Num", "Str", "Virt"}
DaType(da) == IF da = "Str" THEN FR_TYPE_STRING ELSE FR_TYPE_UINT32

\* a tmpl_t: its type, explicit cast, attribute (ATTR), literal (DATA),
\* compiled pattern (REGEX) and, for an expansion, the outcomes the expansion
\* engine can produce for it: [ok |-> FALSE] or [ok |-> TRUE, str |-> s]
Tmpl(type, cast, da, value, preg, outs) ==
    [type |-> type, cast |-> cast, da |-> da, value |-> value, preg |-> preg,
     outs |-> outs]
NOTMPL == Tmpl("NONE", FR_TYPE_INVALID, "Num", NULLBOX, <<>>, {})

\* an outcome of the expansion engine: the expanded text, or a failure, which
\* the engine reports as a negative value err instead of a length
ExpFail(err) == [ok |-> FALSE, str |-> <<>>, err |-> err]
ExpOk(s) == [ok |-> TRUE, str |-> s, err |-> 0]

AttrT(da) == Tmpl(TMPL_TYPE_ATTR, FR_TYPE_INVALID, da, NULLBOX, <<>>, {})
ListT == Tmpl(TMPL_TYPE_LIST, FR_TYPE_INVALID, "Num", NULLBOX, <<>>, {})
DataT(box) == Tmpl(TMPL_TYPE_DATA, FR_TYPE_INVALID, "Num", box, <<>>, {})
XlatT(outs) == Tmpl(TMPL_TYPE_XLAT, FR_TYPE_INVALID, "Num", NULLBOX, <<>>, outs)
ExecT(outs) == Tmpl(TMPL_TYPE_EXEC, FR_TYPE_INVALID, "Num", NULLBOX, <<>>, outs)
RegexT(preg) == Tmpl(TMPL_TYPE_REGEX, FR_TYPE_INVALID, "Num", NULLBOX, preg, {})
RegexXlatT(outs) == Tmpl(TMPL_TYPE_REGEX_XLAT, FR_TYPE_INVALID, "Num", NULLBOX, <<>>, outs)
WithCast(vpt, cast) == [vpt EXCEPT !.cast = cast]

tmpl_is_attr(vpt) == vpt.type = TMPL_TYPE_ATTR
tmpl_is_data(vpt) == vpt.type = TMPL_TYPE_DATA
tmpl_is_regex_xlat(vpt) == vpt.type = TMPL_TYPE_REGEX_XLAT
IsExpansion(vpt) == vpt.type \in {TMPL_TYPE_XLAT, TMPL_TYPE_EXEC, TMPL_TYPE_REGEX_XLAT}

\* a request: the instances of each attribute, in order, and none, the
\* negative code the attribute store of this request reports through err when
\* a lookup finds no instance
Request(pairs, none) == [pairs |-> pairs, none |-> none]

RECURSIVE ListPairs(_, _)
ListPairs(pairs, as) ==
    IF as = {} THEN <<>>
    ELSE LET a == CHOOSE x \in as : TRUE
         IN  pairs[a] \o ListPairs(pairs, as \ {a})

\* variant of tmpl_cursor_init: a lookup that finds no instance reports -1
tmpl_cursor_init_fatal(request, vpt) ==
    LET vps == IF vpt.type = TMPL_TYPE_LIST
               THEN ListPairs(request.pairs, DOMAIN request.pairs)
               ELSE request.pairs[vpt.da]
    IN  IF vps = <<>> THEN [err |-> -1, vps |-> <<>>]
        ELSE [err |-> 0, vps |-> vps]

\* tmpl_cursor_init: the instances matching the template, the first of which
\* is returned, and the code written through err: 0 when there is an
\* instance, else the code the attribute store reports for none
tmpl_cursor_init(request, vpt) ==
    LET vps == IF vpt.type = TMPL_TYPE_LIST
               THEN ListPairs(request.pairs, DOMAIN request.pairs)
               ELSE request.pairs[vpt.da]
    IN  IF vps = <<>> THEN [err |-> request.none, vps |-> <<>>]
        ELSE [err |-> 0, vps |-> vps]

\* tmpl_find_vp: 0 when an instance exists, else the error of the lookup
tmpl_find_vp(request, vpt) == tmpl_cursor_init(request, vpt).err

\* tmpl_aexpand: the outcome o the expansion engine produces for the template
\* this time, with the metacharacters of the substituted text escaped when an
\* escape function is given: the negative value of the failure, else the
\* length and the text
tmpl_aexpand(vpt, o, escape) ==
    IF ~o.ok THEN [slen |-> o.err, str |-> <<>>]
    ELSE LET s == IF escape THEN regex_escape(o.str, EscapeOutLen) ELSE o.str
         IN  [slen |-> Len(s), str |-> s]

(***************************************************************************)
(* Condition nodes.  A chain is a sequence of nodes: real nodes separated  *)
(* by && and || marker nodes; a CHILD node owns a nested chain.  A pointer *)
(* to a node is its path: the positions to follow from the root chain;     *)
(* the empty path is the NULL pointer.                                     *)
(***************************************************************************)
COND_TYPE_TMPL == "TMPL"
COND_TYPE_RCODE == "RCODE"
COND_TYPE_MAP == "MAP"
COND_TYPE_CHILD == "CHILD"
COND_TYPE_TRUE == "TRUE"
COND_TYPE_FALSE == "FALSE"
COND_TYPE_AND == "AND"
COND_TYPE_OR == "OR"
COND_TYPE_INVALID == "INVALID"

PASS2_FIXUP_NONE == "none"
PASS2_PAIRCOMPARE == "paircompare"

Map(lhs, op, rhs) == [lhs |-> lhs, op |-> op, rhs |-> rhs]
NOMAP == Map(NOTMPL, T_OP_CMP_EQ, NOTMPL)

Cond(type, negate, fixup, map, vpt, rc, child) ==
    [type |-> type, negate |-> negate, pass2_fixup |-> fixup, map |-> map,
     vpt |-> vpt, rcode |-> rc, child |-> child]

TrueC(neg) == Cond(COND_TYPE_TRUE, neg, PASS2_FIXUP_NONE, NOMAP, NOTMPL, "none", <<>>)
FalseC(neg) == Cond(COND_TYPE_FALSE, neg, PASS2_FIXUP_NONE, NOMAP, NOTMPL, "none", <<>>)
RcodeC(neg, rc) == Cond(COND_TYPE_RCODE, neg, PASS2_FIXUP_NONE, NOMAP, NOTMPL, rc, <<>>)
TmplC(neg, vpt) == Cond(COND_TYPE_TMPL, neg, PASS2_FIXUP_NONE, NOMAP, vpt, "none", <<>>)
MapC(neg, fixup, map) == Cond(COND_TYPE_MAP, neg, fixup, map, NOTMPL, "none", <<>>)
ChildC(neg, chain) == Cond(COND_TYPE_CHILD, neg, PASS2_FIXUP_NONE, NOMAP, NOTMPL, "none", chain)
AndC == Cond(COND_TYPE_AND, FALSE, PASS2_FIXUP_NONE, NOMAP, NOTMPL, "none", <<>>)
OrC == Cond(COND_TYPE_OR, FALSE, PASS2_FIXUP_NONE, NOMAP, NOTMPL, "none", <<>>)

NULL == <<>>

\* the chain that holds the node at path p
RECURSIVE ChainOf(_, _)
ChainOf(t, p) ==
    IF Len(p) <= 1 THEN t
    ELSE ChainOf(t[p[1]].child, Tail(p))

\* the node a non-NULL pointer points to
NodeAt(t, p) == ChainOf(t, p)[p[Len(p)]]

\* c->next
NextOf(t, p) ==
    IF p[Len(p)] < Len(ChainOf(t, p))
    THEN [p EXCEPT ![Len(p)] = p[Len(p)] + 1]
    ELSE NULL

\* c->parent: the CHILD node that owns the chain of c, NULL in the root chain
ParentOf(p) == SubSeq(p, 1, Len(p) - 1)

\* c->data.child: the first node of the nested chain
\* variant of ChildOf: the descent stays on the CHILD node
ChildStays(p) == p

ChildOf(p) == p \o <<1>>

(***************************************************************************)
(* The state one evaluation reads and writes besides the walker's own:     *)
(* the request's regex capture slots, and the record of what was done:     *)
(* rxlog, one entry per regex evaluation (its result, on a match the       *)
(* captures of the match, and the capture slots before and after it); li   *)
(* and ri, the number of expansions of the left *)
(* and right template of the map under evaluation; nnorm, the number of    *)
(* calls of cond_normalise_and_cmp for that map.                           *)
(***************************************************************************)
\* the request-side state during the evaluation of one node, with its record:
\* li, ri, the expansions made of the left and right template; nnorm, the calls
\* of cond_normalise_and_cmp; ntype, the comparison type it chose; cmps, the
\* comparisons made; live, the values produced by an expansion and not yet
\* released; freed, the sides whose literal in the tree was released; pcmps,
\* the answers of the legacy pair comparator
EvalState(captures, rxlog) ==
    [captures |-> captures, rxlog |-> rxlog, li |-> 0, ri |-> 0, nnorm |-> 0,
     ntype |-> "none", cmps |-> <<>>, live |-> 0, freed |-> {}, pcmps |-> <<>>]

\* an expansion produced a value; a value is released
Alloc(st) == [st EXCEPT !.live = @ + 1]
Free(st) == [st EXCEPT !.live = @ - 1]

\* talloc_free(to_free) for the box cond_realize_tmpl gave for the template in
talloc_free(st, in, side, to_free) ==
    IF to_free = NULLBOX THEN st
    ELSE IF in.type = TMPL_TYPE_DATA THEN [st EXCEPT !.freed = @ \cup {side}]
    ELSE Free(st)

\* the record of one comparison: the operands, the comparison type in force
\* and whether it was made by cond_eval_map itself
CmpLog(st, l, r, ct, fast) ==
    [st EXCEPT !.cmps = Append(@, [l |-> l, r |-> r, ct |-> ct, fast |-> fast])]

\* what the collaborators answer during the evaluation of one node: lexp and
\* rexp, the outcomes of the successive expansions of the left and right (or
\* bare) template; pcmp, the result of the legacy pair comparator
Oracle(lexp, rexp, pcmp) == [lexp |-> lexp, rexp |-> rexp, pcmp |-> pcmp]

Result(rcode, st) == [rcode |-> rcode, st |-> st]

(***************************************************************************)
(* cond_eval_tmpl: a bare template as a boolean.                           *)
(***************************************************************************)
cond_eval_tmpl(request, vpt, o) ==
    CASE vpt.type \in {TMPL_TYPE_ATTR, TMPL_TYPE_LIST} ->
            IF tmpl_find_vp(request, vpt) = 0 THEN 1 ELSE 0
      [] vpt.type \in {TMPL_TYPE_XLAT, TMPL_TYPE_EXEC} ->
            LET slen == tmpl_aexpand(vpt, o, FALSE).slen
            IN  IF slen < 0 THEN 0
                ELSE IF slen = 0 THEN 0
                ELSE 1
      [] OTHER -> 0

(***************************************************************************)
(* cond_do_regex: regex match of lhs against the pattern of the map.       *)
(***************************************************************************)
\* variant of RegexPublish: the capture slots are left alone on no match
RegexPublishKeeps(st, m) ==
    IF m.ret = 1 THEN regex_sub_to_request(st, m.caps) ELSE st

\* variant of RegexPublish: the capture slots are cleared on an error too
RegexPublishClearsOnError(st, m) ==
    IF m.ret = 1 THEN regex_sub_to_request(st, m.caps) ELSE regex_sub_to_request(st, <<>>)

\* the switch on the result of regex_exec: clear the capture slots on no
\* match, publish the captures on a match, leave them on an error
RegexPublish(st, m) ==
    CASE m.ret = 0 -> regex_sub_to_request(st, <<>>)
      [] m.ret = 1 -> regex_sub_to_request(st, m.caps)
      [] OTHER -> st

RxLog(st, ret, caps) ==
    [st EXCEPT !.rxlog = Append(@, [ret |-> ret, caps |-> caps, before |-> st.captures,
                                    after |-> st.captures])]

\* the capture slots as cond_do_regex leaves them, in the entry of rxlog
RxLeft(st) == [st EXCEPT !.rxlog[Len(st.rxlog)].after = st.captures]

\* after regex_exec answered m: log the evaluation, update the capture slots
\* and return the answer
RegexExecuted(st, m) == Result(m.ret, RxLeft(RegexPublish(RxLog(st, m.ret, m.caps), m)))

\* the number of capture slots: the sub-groups of the pattern, or the
\* fallback maximum and one more for the whole match
Subcaptures(n) == IF n = 0 THEN REQUEST_MAX_REGEX + 1 ELSE n

RegexRun(st, preg, lhs) ==
    RegexExecuted(st, regex_exec(preg, lhs.str, Subcaptures(regex_subcapture_count(preg))))

cond_do_regex(st, map, lhs, rhs) ==
    IF lhs = NULLBOX \/ lhs.type # FR_TYPE_STRING THEN Result(-1, RxLog(st, -1, <<>>))
    ELSE IF map.rhs.type = TMPL_TYPE_REGEX THEN RegexRun(st, map.rhs.preg, lhs)
    ELSE IF rhs = NULLBOX \/ rhs.type # FR_TYPE_STRING
         THEN Result(-1, RxLog(st, -1, <<>>))
    ELSE IF ~regex_compile(rhs.str) THEN Result(-1, RxLog(st, -1, <<>>))
    ELSE RegexRun(st, rhs.str, lhs)

(***************************************************************************)
(* cond_cmp_values: regex match, legacy pair comparison or comparison of   *)
(* two boxes.                                                              *)
(***************************************************************************)
\* paircmp answers 0 on a match; anything else is reported as no match
PairCmpResult(pcmp) == IF pcmp = 0 THEN 1 ELSE 0

cond_cmp_values(st, c, lhs, rhs, O) ==
    IF c.map.op = T_OP_REG_EQ THEN cond_do_regex(st, c.map, lhs, rhs)
    ELSE IF c.pass2_fixup = PASS2_PAIRCOMPARE
         THEN Result(PairCmpResult(O.pcmp), [st EXCEPT !.pcmps = Append(@, O.pcmp)])
    ELSE Result(fr_value_box_cmp_op(c.map.op, lhs, rhs), st)

(***************************************************************************)
(* cond_realize_tmpl: a template as a value box, where that needs no       *)
(* iteration.  ret < 0 on failure; out is NULLBOX for an attribute, a list *)
(* or a compiled regex; to_free is the box the caller must release.        *)
(***************************************************************************)
\* the next outcome of the expansion of the left ("l") or right ("r") template
NextExp(st, O, side) == IF side = "l" THEN O.lexp[st.li + 1] ELSE O.rexp[st.ri + 1]
Consume(st, side) ==
    IF side = "l" THEN [st EXCEPT !.li = @ + 1] ELSE [st EXCEPT !.ri = @ + 1]

\* the type an expanded template is cast to
RealizeCastType(in, other) ==
    IF in.cast # FR_TYPE_INVALID THEN in.cast
    ELSE IF other.cast # FR_TYPE_INVALID THEN other.cast
    ELSE IF tmpl_is_attr(other) THEN DaType(other.da)
    ELSE IF tmpl_is_data(other) THEN other.value.type
    ELSE FR_TYPE_STRING

Realized(ret, out, to_free, st) == [ret |-> ret, out |-> out, to_free |-> to_free, st |-> st]

\* the expanded box after the cast in place
RealizeCast(st, box) ==
    IF box = FAILBOX THEN Realized(-1, NULLBOX, NULLBOX, st) ELSE Realized(0, box, box, st)

\* after the expansion e: the failure of the expansion, else the cast to
\* cast_type of the expanded string when that is another type
RealizeExpanded(st, cast_type, e) ==
    IF e.slen < 0 THEN Realized(e.slen, NULLBOX, NULLBOX, st)
    ELSE IF cast_type # FR_TYPE_STRING
         THEN RealizeCast(Alloc(st), fr_value_box_cast(cast_type, StrBox(e.str)))
    ELSE Realized(0, StrBox(e.str), StrBox(e.str), Alloc(st))

\* variant of cond_realize_tmpl: the caller is made the owner of a literal
cond_realize_tmpl_owned(st, in, other, O, side) ==
    CASE in.type \in {TMPL_TYPE_LIST, TMPL_TYPE_REGEX, TMPL_TYPE_ATTR} ->
            Realized(0, NULLBOX, NULLBOX, st)
      [] in.type = TMPL_TYPE_DATA -> Realized(0, in.value, in.value, st)
      [] in.type \in {TMPL_TYPE_REGEX_XLAT, TMPL_TYPE_EXEC, TMPL_TYPE_XLAT} ->
            RealizeExpanded(Consume(st, side), RealizeCastType(in, other),
                            tmpl_aexpand(in, NextExp(st, O, side),
                                         in.type = TMPL_TYPE_REGEX_XLAT))

cond_realize_tmpl(st, in, other, O, side) ==
    CASE in.type \in {TMPL_TYPE_LIST, TMPL_TYPE_REGEX, TMPL_TYPE_ATTR} ->
            Realized(0, NULLBOX, NULLBOX, st)
      [] in.type = TMPL_TYPE_DATA -> Realized(0, in.value, NULLBOX, st)
      [] in.type \in {TMPL_TYPE_REGEX_XLAT, TMPL_TYPE_EXEC, TMPL_TYPE_XLAT} ->
            RealizeExpanded(Consume(st, side), RealizeCastType(in, other),
                            tmpl_aexpand(in, NextExp(st, O, side),
                                         in.type = TMPL_TYPE_REGEX_XLAT))
      [] OTHER -> Realized(-1, NULLBOX, NULLBOX, st)

(***************************************************************************)
(* cond_normalise_and_cmp: choose the comparison type, cast both operands  *)
(* to it and compare, once per instance of a right-hand attribute.         *)
(***************************************************************************)
\* variant of NormaliseType: an explicit cast on the left outranks PairCompare
NormaliseTypeCastFirst(c) ==
    IF c.map.op = T_OP_REG_EQ THEN FR_TYPE_STRING
    ELSE IF c.map.lhs.cast # FR_TYPE_INVALID THEN c.map.lhs.cast
    ELSE IF c.pass2_fixup = PASS2_PAIRCOMPARE THEN DaType(c.map.lhs.da)
    ELSE IF tmpl_is_attr(c.map.lhs) THEN DaType(c.map.lhs.da)
    ELSE IF tmpl_is_attr(c.map.rhs) THEN DaType(c.map.rhs.da)
    ELSE IF tmpl_is_data(c.map.lhs) THEN c.map.lhs.value.type
    ELSE IF tmpl_is_data(c.map.rhs) THEN c.map.rhs.value.type
    ELSE FR_TYPE_INVALID

\* the comparison type chosen before the right side is looked at
NormaliseType(c) ==
    IF c.map.op = T_OP_REG_EQ THEN FR_TYPE_STRING
    ELSE IF c.pass2_fixup = PASS2_PAIRCOMPARE THEN DaType(c.map.lhs.da)
    ELSE IF c.map.lhs.cast # FR_TYPE_INVALID THEN c.map.lhs.cast
    ELSE IF tmpl_is_attr(c.map.lhs) THEN DaType(c.map.lhs.da)
    ELSE IF tmpl_is_attr(c.map.rhs) THEN DaType(c.map.rhs.da)
    ELSE IF tmpl_is_data(c.map.lhs) THEN c.map.lhs.value.type
    ELSE IF tmpl_is_data(c.map.rhs) THEN c.map.rhs.value.type
    ELSE FR_TYPE_INVALID

\* CHECK_INT_CAST: two strings of digits are compared as 64 bit integers
CHECK_INT_CAST(cast_type, l, r) ==
    IF cast_type = FR_TYPE_INVALID
       /\ l # NULLBOX /\ l.type = FR_TYPE_STRING
       /\ r # NULLBOX /\ r.type = FR_TYPE_STRING
       /\ all_digits(l.str) /\ all_digits(r.str)
    THEN FR_TYPE_UINT64
    ELSE cast_type

\* CAST: the operand cast to the comparison type when it has another type;
\* FAILBOX when the cast fails
CAST(cast_type, s) ==
    IF cast_type # FR_TYPE_INVALID /\ s # NULLBOX /\ s.type # FR_TYPE_INVALID
       /\ cast_type # s.type
    THEN fr_value_box_cast(cast_type, s)
    ELSE s

\* the outcome of one comparison; lhs and cast_type are kept for the next
\* instance of the right-hand attribute
Compared(res, lhs, cast_type, castfail) ==
    [rcode |-> res.rcode, st |-> res.st, lhs |-> lhs, cast_type |-> cast_type,
     castfail |-> castfail]

\* variant of CastRhsDone: a right operand that cannot be cast counts as no match
CastRhsSkipped(st, c, ct, l, r, O) ==
    IF r = FAILBOX THEN Compared(Result(0, st), l, ct, FALSE)
    ELSE Compared(cond_cmp_values(CmpLog(st, l, r, ct, FALSE), c, l, r, O), l, ct, FALSE)

\* CAST(rhs) done: r is the cast right operand
CastRhsDone(st, c, ct, l, r, O) ==
    IF r = FAILBOX THEN Compared(Result(-1, st), l, ct, TRUE)
    ELSE Compared(cond_cmp_values(CmpLog(st, l, r, ct, FALSE), c, l, r, O), l, ct, FALSE)

\* CAST(lhs) done: l is the cast left operand
CastLhsDone(st, c, ct, lhs, l, rhs, O) ==
    IF l = FAILBOX THEN Compared(Result(-1, st), lhs, ct, TRUE)
    ELSE CastRhsDone(st, c, ct, l, CAST(ct, rhs), O)

\* CHECK_INT_CAST done: ct is the comparison type
CastChecked(st, c, ct, lhs, rhs, O) == CastLhsDone(st, c, ct, lhs, CAST(ct, lhs), rhs, O)

\* CHECK_INT_CAST, CAST(lhs), CAST(rhs) and cond_cmp_values for one pair of
\* operands
CastAndCmp(st, c, cast_type, lhs, rhs, O) ==
    CastChecked(st, c, CHECK_INT_CAST(cast_type, lhs, rhs), lhs, rhs, O)

ToResult(r) == Result(r.rcode, r.st)

\* the loop over the instances of a right-hand attribute, from instance i
RECURSIVE NormRhsLoop(_, _, _, _, _, _, _, _)
RECURSIVE NormRhsNext(_, _, _, _, _)

NormRhsLoop(st, c, cast_type, lhs, vps, i, rcode, O) ==
    IF i > Len(vps) THEN Result(rcode, st)
    ELSE NormRhsNext(c, vps, i, O, CastAndCmp(st, c, cast_type, lhs, vps[i], O))

\* if (rcode != 0) break; else the next instance
NormRhsNext(c, vps, i, O, r) ==
    IF r.rcode # 0 THEN ToResult(r)
    ELSE NormRhsLoop(r.st, c, r.cast_type, r.lhs, vps, i + 1, r.rcode, O)

\* the right side is an attribute: the cursor over its instances
NormRhsAttr(st, c, cast_type, lhs, cur, O) ==
    NormRhsLoop(st, c, cast_type, lhs, cur.vps, 1, cur.err, O)

\* the expanded right side was compared: talloc_free(data.datum.ptr), which
\* the goto finish of a failed cast jumps over
NormRhsCompared(r) ==
    IF r.castfail THEN Result(r.rcode, r.st) ELSE Result(r.rcode, Free(r.st))

\* the right side is an expansion: e is what it expanded to
NormRhsExpanded(st, c, cast_type, lhs, e, O) ==
    IF e.slen < 0 THEN Result(-1, st)
    ELSE NormRhsCompared(CastAndCmp(Alloc(st), c, cast_type, lhs, StrBox(e.str), O))

\* the right side is a compiled regex: l is the cast left operand
NormRhsRegex(st, c, ct, l, O) ==
    IF l = FAILBOX THEN Result(-1, st)
    ELSE cond_cmp_values(CmpLog(st, l, NULLBOX, ct, FALSE), c, l, NULLBOX, O)

\* the switch on the type of the right template
NormRhsSwitch(st, request, c, cast_type, lhs, O) ==
    CASE c.map.rhs.type = TMPL_TYPE_ATTR ->
            NormRhsAttr(st, c, cast_type, lhs, tmpl_cursor_init(request, c.map.rhs), O)
      [] c.map.rhs.type = TMPL_TYPE_DATA ->
            ToResult(CastAndCmp(st, c, cast_type, lhs, c.map.rhs.value, O))
      [] c.map.rhs.type \in {TMPL_TYPE_EXEC, TMPL_TYPE_XLAT, TMPL_TYPE_REGEX_XLAT} ->
            NormRhsExpanded(Consume(st, "r"), c, cast_type, lhs,
                            tmpl_aexpand(c.map.rhs, NextExp(st, O, "r"),
                                         c.map.op = T_OP_REG_EQ
                                         /\ tmpl_is_regex_xlat(c.map.rhs)), O)
      [] c.map.rhs.type = TMPL_TYPE_REGEX ->
            NormRhsRegex(st, c, cast_type, CAST(cast_type, lhs), O)
      [] OTHER -> Result(-1, st)

\* the comparison type is chosen: the switch on the right template follows
NormTypeChosen(st, request, c, cast_type, lhs, O) ==
    NormRhsSwitch([st EXCEPT !.nnorm = @ + 1, !.ntype = cast_type], request, c,
                  cast_type, lhs, O)

cond_normalise_and_cmp(st, request, c, lhs, O) ==
    NormTypeChosen(st, request, c, NormaliseType(c), lhs, O)

(***************************************************************************)
(* cond_eval_map: evaluate one map.                                        *)
(***************************************************************************)
\* the loop over the instances of a left-hand attribute or list: the map is
\* true when one instance compares true
RECURSIVE MapLhsLoop(_, _, _, _, _, _, _)
RECURSIVE MapLhsNext(_, _, _, _, _, _)

MapLhsLoop(st, request, c, vps, i, rcode, O) ==
    IF i > Len(vps) THEN Result(rcode, st)
    ELSE MapLhsNext(request, c, vps, i, O,
                    cond_normalise_and_cmp(st, request, c, vps[i], O))

\* variant of MapLhsNext: the loop goes on after an instance that matched
MapLhsNextLast(request, c, vps, i, O, r) ==
    IF r.rcode < 0 THEN r
    ELSE MapLhsLoop(r.st, request, c, vps, i + 1, r.rcode, O)

\* if (rcode != 0) break; else the next instance
MapLhsNext(request, c, vps, i, O, r) ==
    IF r.rcode # 0 THEN r
    ELSE MapLhsLoop(r.st, request, c, vps, i + 1, r.rcode, O)

\* the left side is an attribute or a list: the cursor over its instances
MapLhsAttr(st, request, c, cur, O) ==
    MapLhsLoop(st, request, c, cur.vps, 1, cur.err, O)

\* the expanded left side was compared: if (p) talloc_free(p)
MapLhsCompared(r) == Result(r.rcode, Free(r.st))

\* the left side is an expansion: e is what it expanded to this time
MapLhsExpanded(st, request, c, e, O) ==
    IF e.slen < 0 THEN Result(e.slen, st)
    ELSE MapLhsCompared(cond_normalise_and_cmp(Alloc(st), request, c, StrBox(e.str), O))

\* variant of CmpRealized: two strings of digits are compared as integers
CmpRealizedDigits(st, c, lhs, rhs) ==
    IF c.map.op # T_OP_REG_EQ
    THEN Result(fr_value_box_cmp_op(c.map.op,
                                    CAST(CHECK_INT_CAST(FR_TYPE_INVALID, lhs, rhs), lhs),
                                    CAST(CHECK_INT_CAST(FR_TYPE_INVALID, lhs, rhs), rhs)), st)
    ELSE cond_do_regex(st, c.map, lhs, rhs)

\* both sides are realized: compare them here
CmpRealized(st, c, lhs, rhs) ==
    IF c.map.op # T_OP_REG_EQ
    THEN Result(fr_value_box_cmp_op(c.map.op, lhs, rhs), st)
    ELSE cond_do_regex(st, c.map, lhs, rhs)

\* talloc_free(lhs_free); talloc_free(rhs_free)
FreeRealized(st, c, l, r) ==
    talloc_free(talloc_free(st, c.map.lhs, "l", l.to_free), c.map.rhs, "r", r.to_free)

\* the comparison of the two realized sides is made: both are released
RealizedCompared(c, l, r, res) == Result(res.rcode, FreeRealized(res.st, c, l, r))

\* the switch on the type of the left template, taken when a side is not realized
MapLhsSwitch(st, request, c, O) ==
    CASE c.map.lhs.type \in {TMPL_TYPE_LIST, TMPL_TYPE_ATTR} ->
            IF c.pass2_fixup = PASS2_PAIRCOMPARE /\ c.map.op # T_OP_REG_EQ
            THEN cond_normalise_and_cmp(st, request, c, NULLBOX, O)
            ELSE MapLhsAttr(st, request, c, tmpl_cursor_init(request, c.map.lhs), O)
      [] c.map.lhs.type = TMPL_TYPE_DATA ->
            cond_normalise_and_cmp(st, request, c, c.map.lhs.value, O)
      [] c.map.lhs.type \in {TMPL_TYPE_EXEC, TMPL_TYPE_XLAT} ->
            MapLhsExpanded(Consume(st, "l"), request, c,
                           tmpl_aexpand(c.map.lhs, NextExp(st, O, "l"), FALSE), O)
      [] OTHER -> Result(-1, st)

\* both sides went through cond_realize_tmpl: l and r are what it gave
MapRealized(request, c, O, l, r) ==
    IF r.ret < 0 THEN Result(-1, r.st)
    ELSE IF l.out # NULLBOX /\ r.out # NULLBOX
         THEN RealizedCompared(c, l, r,
                               CmpRealized(CmpLog(r.st, l.out, r.out, FR_TYPE_INVALID, TRUE),
                                           c, l.out, r.out))
    ELSE MapLhsSwitch(FreeRealized(r.st, c, l, r), request, c, O)

\* the left side went through cond_realize_tmpl: l is what it gave
MapLhsRealized(request, c, O, l) ==
    IF l.ret < 0 THEN Result(-1, l.st)
    ELSE MapRealized(request, c, O, l,
                     cond_realize_tmpl(l.st, c.map.rhs, c.map.lhs, O, "r"))

cond_eval_map(st, request, c, O) ==
    MapLhsRealized(request, c, O, cond_realize_tmpl(st, c.map.lhs, c.map.rhs, O, "l"))

(***************************************************************************)
(* cond_eval: the walker.                                                  *)
(***************************************************************************)
VARIABLES
    tree,       \* the condition tree (the root chain), fixed after construction
    request,    \* the attributes of the request
    modreturn,  \* the previous module's return code
    captures,   \* the regex capture slots of the request
    c,          \* the walker's current node (a path; NULL when none)
    rcode,      \* the walker's result so far
    depth,      \* the walker's depth counter
    pc,         \* "run" inside the loop of cond_eval, "done" after its return
    ret,        \* the value cond_eval returned
    trace,      \* record: one entry per step of the walker, in order
    exits,      \* record: the CHILD nodes the walker went back up through
    rxlog,      \* record: the regex evaluations made on the request
    other       \* the evaluation of a second request on the same tree, while it
                \* is not the one running: its request and its walker's state

vars == <<tree, request, modreturn, captures, c, rcode, depth, pc, ret, trace,
          exits, rxlog, other>>

\* a literal of the tree after talloc_free was called on it
FREEDBOX == [type |-> "FREED", str |-> <<>>, num |-> 0]

\* the node whose map had the literals of the sides in freed released
ReleasedNode(node, freed) ==
    [node EXCEPT !.map.lhs.value = IF "l" \in freed THEN FREEDBOX ELSE @,
                 !.map.rhs.value = IF "r" \in freed THEN FREEDBOX ELSE @]

RECURSIVE SetNode(_, _, _)
SetNode(t, p, node) ==
    IF Len(p) = 1 THEN [t EXCEPT ![p[1]] = node]
    ELSE [t EXCEPT ![p[1]].child = SetNode(@, Tail(p), node)]

\* the tree after the evaluation of the node at p, which called talloc_free on
\* the literals of the sides in freed
TreeAfter(t, p, freed) ==
    IF freed = {} THEN t ELSE SetNode(t, p, ReleasedNode(NodeAt(t, p), freed))

\* variant of Negated: the negate flag of the node is ignored
NegateIgnored(node, rc) == rc

\* if (c->negate) rcode = !rcode
Negated(node, rc) == IF node.negate THEN (IF rc = 0 THEN 1 ELSE 0) ELSE rc

\* case COND_TYPE_AND: if (!rcode) goto return_to_parent
AndShortCircuits(rc) == rc = 0
\* case COND_TYPE_OR: if (rcode) goto return_to_parent
OrShortCircuits(rc) == rc # 0

\* the rcode the walker holds once it is back at a CHILD node whose chain
\* ended with rc: nothing is done to it on the way up
ChildResult(node, rc) == rc

Advanced(p, d, done, ups, rc) ==
    [c |-> p, depth |-> d, done |-> done, ups |-> ups, rcode |-> rc]

RECURSIVE ReturnToParent(_, _, _, _, _)
RECURSIVE WhileNoNext(_, _, _, _, _)
RECURSIVE ShortCircuit(_, _, _, _, _)

\* variant of ReturnToParent: depth is not decremented on the way up
ReturnToParentKeepsDepth(t, p, rc, d, ups) ==
    IF ParentOf(p) = NULL THEN Advanced(NULL, d, TRUE, ups, rc)
    ELSE WhileNoNext(t, ParentOf(p), ChildResult(NodeAt(t, ParentOf(p)), rc), d,
                     Append(ups, [c |-> ParentOf(p), sub |-> rc,
                                  used |-> ChildResult(NodeAt(t, ParentOf(p)), rc),
                                  depth |-> d]))

\* return_to_parent: c = c->parent; return rcode when there is none; depth--;
\* then the test of the while loop again.  ups lists the CHILD nodes gone back
\* up through: sub, the result of the chain left; used, the rcode held after
ReturnToParent(t, p, rc, d, ups) ==
    IF ParentOf(p) = NULL THEN Advanced(NULL, d, TRUE, ups, rc)
    ELSE WhileNoNext(t, ParentOf(p), ChildResult(NodeAt(t, ParentOf(p)), rc), d - 1,
                     Append(ups, [c |-> ParentOf(p), sub |-> rc,
                                  used |-> ChildResult(NodeAt(t, ParentOf(p)), rc),
                                  depth |-> d - 1]))

\* while (!c->next) { return_to_parent ... }, then the short-circuit switch
WhileNoNext(t, p, rc, d, ups) ==
    IF NextOf(t, p) = NULL THEN ReturnToParent(t, p, rc, d, ups)
    ELSE ShortCircuit(t, p, rc, d, ups)

\* c = c->next->next: the node after the marker n
SkipMarker(t, n) == NextOf(t, n)

\* variant of ShortCircuit: a short-circuit skips the node after the marker
\* only, and the walk goes on from there in the same chain
ShortCircuitSkipsOne(t, p, rc, d, ups) ==
    CASE NodeAt(t, NextOf(t, p)).type = COND_TYPE_AND ->
            IF AndShortCircuits(rc)
            THEN WhileNoNext(t, SkipMarker(t, NextOf(t, p)), rc, d, ups)
            ELSE Advanced(SkipMarker(t, NextOf(t, p)), d, FALSE, ups, rc)
      [] NodeAt(t, NextOf(t, p)).type = COND_TYPE_OR ->
            IF OrShortCircuits(rc)
            THEN WhileNoNext(t, SkipMarker(t, NextOf(t, p)), rc, d, ups)
            ELSE Advanced(SkipMarker(t, NextOf(t, p)), d, FALSE, ups, rc)
      [] OTHER -> Advanced(NextOf(t, p), d, FALSE, ups, rc)

\* switch (c->next->type)
ShortCircuit(t, p, rc, d, ups) ==
    CASE NodeAt(t, NextOf(t, p)).type = COND_TYPE_AND ->
            IF AndShortCircuits(rc) THEN ReturnToParent(t, p, rc, d, ups)
            ELSE Advanced(SkipMarker(t, NextOf(t, p)), d, FALSE, ups, rc)
      [] NodeAt(t, NextOf(t, p)).type = COND_TYPE_OR ->
            IF OrShortCircuits(rc) THEN ReturnToParent(t, p, rc, d, ups)
            ELSE Advanced(SkipMarker(t, NextOf(t, p)), d, FALSE, ups, rc)
      [] OTHER -> Advanced(NextOf(t, p), d, FALSE, ups, rc)

\* the entry of trace for the evaluation of the current node: own, what the
\* node's evaluation gave; res, the rcode after the negation; xlen, what
\* tmpl_aexpand gave each time the node's template (a bare template, or the
\* left template of a map) was expanded, in order: a length, or the negative
\* value of a failure
Evaluated(own, res, st, xlen) ==
    [c |-> c, kind |-> "eval", own |-> own, res |-> res, xlen |-> xlen,
     nnorm |-> st.nnorm, li |-> st.li, ri |-> st.ri, ntype |-> st.ntype,
     cmps |-> st.cmps, live |-> st.live, pcmps |-> st.pcmps, before |-> captures,
     after |-> st.captures]

\* if (rcode < 0) return rcode
ReturnError(own, st, xlen) ==
    /\ rcode' = own
    /\ ret' = own
    /\ pc' = "done"
    /\ trace' = Append(trace, Evaluated(own, own, st, xlen))
    /\ UNCHANGED <<c, depth, exits>>

\* the walker moves on to a.c, or returns its rcode
MoveOn(own, rc, a, st, xlen) ==
    /\ rcode' = a.rcode
    /\ c' = a.c
    /\ depth' = a.depth
    /\ exits' = exits \o a.ups
    /\ trace' = Append(trace, Evaluated(own, rc, st, xlen))
    /\ IF a.done \/ a.c = NULL
       THEN pc' = "done" /\ ret' = a.rcode
       ELSE pc' = "run" /\ UNCHANGED ret

\* the negation is applied: the way back up and the short-circuit
AfterNegate(own, rc, st, xlen) ==
    MoveOn(own, rc, WhileNoNext(tree, c, rc, depth, <<>>), st, xlen)

\* variant of AfterNode: the test for an error before the negation is left out
AfterNodeNoReturn(own, st, xlen) ==
    /\ captures' = st.captures
    /\ rxlog' = st.rxlog
    /\ tree' = TreeAfter(tree, c, st.freed)
    /\ UNCHANGED <<request, modreturn, other>>
    /\ AfterNegate(own, Negated(NodeAt(tree, c), own), st, xlen)

\* what follows the switch on the node type, for a node whose evaluation gave
\* own and left the request-side state st: the return on an error, else the
\* negation, the way back up and the short-circuit
AfterNode(own, st, xlen) ==
    /\ captures' = st.captures
    /\ rxlog' = st.rxlog
    /\ tree' = TreeAfter(tree, c, st.freed)
    /\ UNCHANGED <<request, modreturn, other>>
    /\ IF own < 0
       THEN ReturnError(own, st, xlen)
       ELSE AfterNegate(own, Negated(NodeAt(tree, c), own), st, xlen)

\* the same for a map that gave r, its left template vpt having been expanded
\* r.st.li times with the outcomes lexp
AfterResult(vpt, lexp, r) ==
    AfterNode(r.rcode, r.st,
              [k \in 1..r.st.li |->
                  tmpl_aexpand(vpt, lexp[k], k = 1 /\ tmpl_is_regex_xlat(vpt)).slen])

Running(type) == pc = "run" /\ c # NULL /\ NodeAt(tree, c).type = type

St0 == EvalState(captures, rxlog)

\* the sequences of n outcomes of the expansion of a template
ExpSeqs(vpt, n) == IF vpt.outs = {} THEN {<<>>} ELSE [1..n -> vpt.outs]

\* case COND_TYPE_TMPL
EvalTmpl ==
    /\ Running(COND_TYPE_TMPL)
    /\ LET vpt == NodeAt(tree, c).vpt
       IN  \E e \in ExpSeqs(vpt, 1) :
              LET o == IF e = <<>> THEN ExpFail(-1) ELSE e[1]
              IN  AfterNode(cond_eval_tmpl(request, vpt, o), St0,
                            IF vpt.type \in {TMPL_TYPE_XLAT, TMPL_TYPE_EXEC}
                            THEN <<tmpl_aexpand(vpt, o, FALSE).slen>> ELSE <<>>)

\* case COND_TYPE_RCODE
EvalRcode ==
    /\ Running(COND_TYPE_RCODE)
    /\ AfterNode(IF NodeAt(tree, c).rcode = modreturn THEN 1 ELSE 0, St0, <<>>)

\* the set of answers of the legacy pair comparator: match, no match, failure
PairCmpAnswers == {0, 1, -1}

\* case COND_TYPE_MAP
EvalMap ==
    /\ Running(COND_TYPE_MAP)
    /\ LET node == NodeAt(tree, c)
       IN  \E lexp \in ExpSeqs(node.map.lhs, 2),
              rexp \in ExpSeqs(node.map.rhs, 1 + MaxInst),
              pcmp \in IF node.pass2_fixup = PASS2_PAIRCOMPARE THEN PairCmpAnswers ELSE {0} :
              AfterResult(node.map.lhs, lexp,
                          cond_eval_map(St0, request, node, Oracle(lexp, rexp, pcmp)))

\* case COND_TYPE_CHILD: depth++; c = c->data.child; continue.  With no child
\* c is NULL: the loop ends and cond_eval returns the rcode it holds
EvalChild ==
    /\ Running(COND_TYPE_CHILD)
    /\ depth' = depth + 1
    /\ IF NodeAt(tree, c).child = <<>>
       THEN c' = NULL /\ pc' = "done" /\ ret' = rcode
       ELSE c' = ChildOf(c) /\ UNCHANGED <<pc, ret>>
    /\ trace' = Append(trace, [c |-> c, kind |-> "child", own |-> 0, res |-> 0,
                               xlen |-> <<>>, nnorm |-> 0, li |-> 0, ri |-> 0,
                               ntype |-> "none", cmps |-> <<>>, live |-> 0,
                               pcmps |-> <<>>, before |-> captures,
                               after |-> captures])
    /\ UNCHANGED <<tree, request, modreturn, captures, rcode, exits, rxlog, other>>

\* case COND_TYPE_TRUE
EvalTrue == Running(COND_TYPE_TRUE) /\ AfterNode(1, St0, <<>>)

\* case COND_TYPE_FALSE
EvalFalse == Running(COND_TYPE_FALSE) /\ AfterNode(0, St0, <<>>)

\* the types of the nodes the switch on c->type has a case for
EvalTypes ==
    {COND_TYPE_TMPL, COND_TYPE_RCODE, COND_TYPE_MAP, COND_TYPE_CHILD, COND_TYPE_TRUE,
     COND_TYPE_FALSE}

\* default: return -1, for a node of any other type: a marker the walker was
\* led to by a tree that is not well formed, or a node of type INVALID
EvalDefault ==
    /\ pc = "run"
    /\ c # NULL
    /\ NodeAt(tree, c).type \notin EvalTypes
    /\ pc' = "done"
    /\ ret' = -1
    /\ UNCHANGED <<tree, request, modreturn, captures, c, rcode, depth, trace, exits,
                   rxlog, other>>

\* the switch on c->type
Next ==
    EvalTmpl \/ EvalRcode \/ EvalMap \/ EvalChild \/ EvalTrue \/ EvalFalse \/ EvalDefault

(***************************************************************************)
(* Condition trees: every chain of at most MaxNodes real nodes, nested     *)
(* chains included, over a set of leaves.                                  *)
(***************************************************************************)
RECURSIVE ChainsN(_, _)
ChainsN(L, n) ==
    LET Elems(k) == IF k = 1 THEN L
                    ELSE {ChildC(b, ch) : b \in BOOLEAN, ch \in ChainsN(L, k - 1)}
    IN  {<<e>> : e \in Elems(n)}
        \cup UNION {{<<e, m>> \o rest : e \in Elems(k), m \in {AndC, OrC},
                                        rest \in ChainsN(L, n - k)} : k \in 1..(n - 1)}

Trees(L) == UNION {ChainsN(L, n) : n \in 1..MaxNodes}

\* the negative values a failed expansion is given, and the codes an
\* attribute store reports for a lookup that finds no instance
ExpErrs == {-1, -2}
LookupErrs == {-1, -2}
ExpFails == {ExpFail(e) : e \in ExpErrs}

\* the leaves of the trees of Spec: constants, a return code test, a bare
\* expansion, and a regex map whose left side is an expansion
WalkXlat == XlatT(ExpFails \cup {ExpOk(<<>>), ExpOk(<<"a">>)})
WalkMap == Map(XlatT({ExpFail(-1), ExpOk(<<>>), ExpOk(<<"a">>), ExpOk(<<"b">>), ExpOk(<<"!">>)}),
               T_OP_REG_EQ, RegexT(<<".">>))
WalkLeaves ==
    UNION {{TrueC(b), FalseC(b), RcodeC(b, "ok"), TmplC(b, WalkXlat),
            MapC(b, PASS2_FIXUP_NONE, WalkMap)} : b \in BOOLEAN}

NoPairs == [a \in Attrs |-> <<>>]

\* trees that are not well formed: a node of type INVALID, a marker where a
\* node is expected, a CHILD node without a chain
InvalidC == Cond(COND_TYPE_INVALID, FALSE, PASS2_FIXUP_NONE, NOMAP, NOTMPL, "none", <<>>)
IllFormedTrees ==
    {<<InvalidC>>, <<AndC, TrueC(FALSE)>>, <<OrC>>, <<TrueC(FALSE), AndC, OrC, TrueC(FALSE)>>,
     <<FalseC(FALSE), OrC, InvalidC>>, <<ChildC(FALSE, <<>>)>>,
     <<TrueC(FALSE), AndC, ChildC(TRUE, <<>>)>>, <<ChildC(FALSE, <<AndC>>), AndC, TrueC(FALSE)>>}

\* no second request evaluates the tree
NoOther == [id |-> 0]

\* the state at the entry of cond_eval
Entry ==
    /\ c = <<1>>
    /\ rcode = -1
    /\ depth = 0
    /\ pc = "run"
    /\ ret = -1
    /\ trace = <<>>
    /\ exits = <<>>
    /\ rxlog = <<>>

Init ==
    /\ tree \in Trees(WalkLeaves) \cup IllFormedTrees
    /\ request = Request(NoPairs, -1)
    /\ modreturn \in {"ok", "reject"}
    /\ captures \in {<<>>, <<<<"r">>>>}
    /\ Entry
    /\ other = NoOther

Spec == Init /\ [][Next]_vars

(***************************************************************************)
(* Maps over a request with attribute instances.                           *)
(***************************************************************************)
SeqsUpTo(S, n) == UNION {[1..k -> S] : k \in 0..n}

\* the instances of the attributes Num and Str on the request
NumInstances ==
    {[k \in 1..Len(q) |-> NumBox(FR_TYPE_UINT32, q[k])] : q \in SeqsUpTo({1, 2, 3}, MaxInst)}
StrInstances ==
    {<<>>, <<StrBox(<<"2">>)>>, <<StrBox(<<"a">>)>>, <<StrBox(<<"a">>), StrBox(<<"2">>)>>,
     <<StrBox(<<"2">>), StrBox(<<"a">>)>>}

\* requests with and without instances of Num and of Str; where one of them
\* has no instance, on attribute stores that report either code for a lookup
\* that finds none
MapRequests ==
    {r \in {Request([a \in Attrs |-> CASE a = "Num" -> n [] a = "Str" -> t [] OTHER -> <<>>], e) :
                n \in NumInstances, t \in StrInstances, e \in LookupErrs} :
        r.none = -1 \/ r.pairs["Num"] = <<>> \/ r.pairs["Str"] = <<>>}

\* the outcomes of the expansions: of a right-hand template, whose failure
\* the code answers with -1 whatever its value, and of a left-hand template
MapOuts == {ExpFail(-1), ExpOk(<<"2">>), ExpOk(<<"a">>)}
LeftOuts == ExpFails \cup {ExpOk(<<"2">>), ExpOk(<<"a">>)}
Literals ==
    {DataT(NumBox(FR_TYPE_UINT32, 2)), DataT(NumBox(FR_TYPE_UINT32, 5)),
     DataT(StrBox(<<"2">>)), DataT(StrBox(<<"a">>))}

\* maps with an attribute or list on the left
AttrMaps ==
    {Map(l, op, r) : l \in {AttrT("Num"), AttrT("Str"), AttrT("Virt"), ListT},
                     op \in CmpOps, r \in Literals}
    \cup {Map(AttrT(l), op, AttrT(r)) : l \in {"Num", "Str"},
                                        op \in {T_OP_CMP_EQ, T_OP_LT}, r \in Attrs}
    \cup {Map(AttrT(l), op, XlatT(MapOuts)) : l \in {"Num", "Str"},
                                              op \in {T_OP_CMP_EQ, T_OP_LT}}
    \cup {Map(AttrT("Str"), T_OP_REG_EQ, r) : r \in {RegexT(<<"a">>), RegexXlatT(MapOuts)}}

\* maps of an attribute against an operand with an explicit cast, on either side
CastMaps ==
    {Map(WithCast(l, FR_TYPE_STRING), op, AttrT("Str")) :
        l \in {AttrT("Num"), DataT(StrBox(<<"2">>)), XlatT(LeftOuts)},
        op \in {T_OP_CMP_EQ, T_OP_LT}}
    \cup {Map(WithCast(l, FR_TYPE_UINT32), op, AttrT("Str")) :
             l \in {AttrT("Str"), XlatT(LeftOuts)}, op \in {T_OP_CMP_EQ, T_OP_LT}}
    \cup {Map(AttrT("Num"), op, WithCast(r, FR_TYPE_STRING)) :
             r \in {AttrT("Str"), DataT(StrBox(<<"2">>)), XlatT(MapOuts)},
             op \in {T_OP_CMP_EQ, T_OP_LT}}

\* maps with a literal or an expansion on the left
OtherMaps ==
    {Map(l, op, r) : l \in {DataT(NumBox(FR_TYPE_UINT32, 2)), DataT(StrBox(<<"2">>)),
                            XlatT(LeftOuts)},
                     op \in {T_OP_CMP_EQ, T_OP_LT},
                     r \in Literals \cup {XlatT(MapOuts), AttrT("Num")}}
    \cup {Map(XlatT(LeftOuts), T_OP_REG_EQ, r) : r \in {RegexT(<<"a">>), RegexXlatT(MapOuts)}}

\* maps of strings of digits: literals and expansions, without a cast
DigitOuts == {ExpOk(<<"9">>), ExpOk(<<"1", "0">>)}
DigitMaps ==
    {Map(DataT(StrBox(l)), op, DataT(StrBox(r))) :
        l \in {<<"0", "1", "0">>, <<"1", "0">>}, r \in {<<"1", "0">>, <<"9">>},
        op \in {T_OP_CMP_EQ, T_OP_LT}}
    \cup {Map(l, op, XlatT({r})) :
             l \in {XlatT({o}) : o \in DigitOuts} \cup {ExecT({o}) : o \in DigitOuts},
             r \in DigitOuts, op \in {T_OP_CMP_EQ, T_OP_LT}}

\* a tree with a node of every other kind
MixedTree ==
    <<ChildC(FALSE, <<TrueC(FALSE), AndC, FalseC(FALSE)>>), OrC, RcodeC(FALSE, "reject"),
      OrC, TmplC(FALSE, AttrT("Num"))>>

InitMap ==
    /\ \/ /\ tree \in {<<MapC(b, PASS2_FIXUP_NONE, m)>> :
                         b \in BOOLEAN, m \in AttrMaps \cup CastMaps}
          /\ request \in MapRequests
       \/ /\ tree \in {<<MapC(b, PASS2_FIXUP_NONE, m)>> :
                         b \in BOOLEAN, m \in OtherMaps \cup DigitMaps}
                      \cup {<<MapC(b, PASS2_PAIRCOMPARE,
                                   Map(AttrT("Virt"), T_OP_CMP_EQ, r))>> :
                                b \in BOOLEAN, r \in Literals}
                      \cup {MixedTree} \cup IllFormedTrees
          /\ request \in {Request([NoPairs EXCEPT !["Num"] = <<NumBox(FR_TYPE_UINT32, 2)>>], -1),
                          Request(NoPairs, -1), Request(NoPairs, -2)}
    /\ modreturn = "ok"
    /\ captures = <<>>
    /\ Entry
    /\ other = NoOther

SpecMap == InitMap /\ [][Next]_vars

\* the walker keeps running until cond_eval returns
LiveSpec == Spec /\ WF_vars(Next)

(***************************************************************************)
(* Properties of the walker.                                               *)
(***************************************************************************)
IsPrefix(p, q) == Len(p) <= Len(q) /\ SubSeq(q, 1, Len(p)) = p

\* the node at p, or a node inside it, was evaluated or descended into
Touched(p) == \E i \in 1..Len(trace) : IsPrefix(p, trace[i].c)

RECURSIVE PathsIn(_, _)
PathsIn(chain, pre) ==
    UNION {{pre \o <<i>>} \cup
           (IF chain[i].type = COND_TYPE_CHILD THEN PathsIn(chain[i].child, pre \o <<i>>)
            ELSE {}) : i \in 1..Len(chain)}

\* the nodes of the tree, markers left out
RealNodes == {p \in PathsIn(tree, <<>>) :
                 NodeAt(tree, p).type \notin {COND_TYPE_AND, COND_TYPE_OR}}

Complement(b) == IF b = 0 THEN 1 ELSE 0

\* the results after negation that the node at p had so far: of its own
\* evaluation, or for a CHILD node of its chain with its negate flag applied
ResultsOf(p) ==
    {trace[i].res : i \in {k \in 1..Len(trace) :
                              trace[k].c = p /\ trace[k].kind = "eval" /\ trace[k].own >= 0}}
    \cup {Negated(NodeAt(tree, p), exits[j].sub) :
              j \in {k \in 1..Len(exits) : exits[k].c = p}}

\* the node at p is followed by a marker of the given type and then a node
FollowedBy(p, type) ==
    /\ NextOf(tree, p) # NULL
    /\ NodeAt(tree, NextOf(tree, p)).type = type

Successor(p) == NextOf(tree, NextOf(tree, p))

\* C1: for a node or CHILD subtree A followed by && and then B, when A's
\* result after negation is false B is never evaluated
C1_AndShortCircuit ==
    \A A \in RealNodes :
        (FollowedBy(A, COND_TYPE_AND) /\ 0 \in ResultsOf(A)) => ~Touched(Successor(A))

\* C2: for a node or CHILD subtree A followed by || and then B, when A's
\* result after negation is true B is never evaluated
C2_OrShortCircuit ==
    \A A \in RealNodes :
        (FollowedBy(A, COND_TYPE_OR) /\ 1 \in ResultsOf(A)) => ~Touched(Successor(A))

\* C3: a node whose evaluation fails is the last step of the walk: cond_eval
\* has returned, and returned that failure, whatever the negate flags and the
\* marker that follows
C3_FailureAborts ==
    \A i \in 1..Len(trace) :
        trace[i].own < 0 =>
            /\ i = Len(trace)
            /\ pc = "done"
            /\ ret = trace[i].own
            /\ rcode = trace[i].own

\* a negated node, followed by a marker inside a negated CHILD, failed
C3_Witness ==
    \E i \in 1..Len(trace) :
        /\ trace[i].own < 0
        /\ Len(trace[i].c) > 1
        /\ NodeAt(tree, trace[i].c).negate
        /\ NodeAt(tree, ParentOf(trace[i].c)).negate
        /\ NextOf(tree, trace[i].c) # NULL

\* C4: the result the walker goes on with after a Map, Template, RCODE, True
\* or False node is the complement of the node's own result when negate is
\* set and the node's own result when it is not; the failure of a negated
\* node is returned as it is
C4_NegateApplied ==
    \A i \in 1..Len(trace) :
        trace[i].kind = "eval" =>
            /\ trace[i].own \in {1, 0, -1}
            /\ trace[i].own >= 0 =>
                  /\ trace[i].res = IF NodeAt(tree, trace[i].c).negate
                                    THEN Complement(trace[i].own) ELSE trace[i].own
                  /\ i = Len(trace) => rcode = trace[i].res
            /\ trace[i].own < 0 => (trace[i].res = trace[i].own /\ ret = trace[i].own)

\* a negated Map that matched counts as false, a negated Template that did
\* not counts as true
C4_Witness ==
    /\ \E i \in 1..Len(trace) :
          /\ NodeAt(tree, trace[i].c).type = COND_TYPE_MAP
          /\ NodeAt(tree, trace[i].c).negate
          /\ trace[i].own = 1 /\ trace[i].res = 0
    /\ \E i \in 1..Len(trace) :
          /\ NodeAt(tree, trace[i].c).type = COND_TYPE_TMPL
          /\ NodeAt(tree, trace[i].c).negate
          /\ trace[i].own = 0 /\ trace[i].res = 1

\* C5: after the chain of a CHILD node with negate set has finished, the
\* rcode the walker goes on with, for the short-circuit test on the CHILD's
\* successor and for the value returned, is the complement of the chain's
\* result
C5_ChildNegated ==
    /\ \A j \in 1..Len(exits) :
          NodeAt(tree, exits[j].c).negate => exits[j].used = Complement(exits[j].sub)
    /\ (pc = "done" /\ ret >= 0 /\ Len(tree) = 1 /\ tree[1].type = COND_TYPE_CHILD
            /\ tree[1].negate /\ exits # <<>>)
          => ret = Complement(exits[Len(exits)].sub)

\* the number of nodes of the tree
NodeCount == Cardinality(RealNodes)

NoRevisit ==
    \A i, j \in 1..Len(trace) : trace[i].c = trace[j].c => i = j

StepsBounded == Len(trace) <= NodeCount

\* C6: cond_eval returns; no node is evaluated or descended into twice; and
\* the steps of the walker never outnumber the nodes of the tree
C6_Terminates == [](NoRevisit /\ StepsBounded) /\ <>(pc = "done")

\* a walk through two nested CHILD nodes that took as many steps as the tree
\* has nodes
C6_Witness ==
    /\ pc = "done"
    /\ Len(trace) = NodeCount
    /\ \E i \in 1..Len(trace) : Len(trace[i].c) = 3

\* the regex evaluations made so far that did not fail
RegexDone == {k \in 1..Len(rxlog) : rxlog[k].ret >= 0}

LastRegexDone == CHOOSE k \in RegexDone : \A m \in RegexDone : m <= k

\* C9: the capture slots hold the captures of the most recent regex
\* evaluation that did not fail when it matched, and nothing when it did not
C9_CaptureLifecycle ==
    RegexDone # {} =>
        captures = IF rxlog[LastRegexDone].ret = 1 THEN rxlog[LastRegexDone].caps
                   ELSE <<>>

\* a match, then an evaluation that did not match: the slots are empty; and
\* the evaluations of the walk so far were three
C9_Witness ==
    /\ Len(rxlog) = 3
    /\ rxlog[1].ret = 1 /\ rxlog[1].caps # <<>>
    /\ rxlog[2].ret = 0
    /\ rxlog[3].ret = -1
    /\ captures = <<>>

\* the steps of the walker that evaluated a bare Exec or Xlat template
BareExpansions ==
    {i \in 1..Len(trace) :
        /\ NodeAt(tree, trace[i].c).type = COND_TYPE_TMPL
        /\ NodeAt(tree, trace[i].c).vpt.type \in {TMPL_TYPE_XLAT, TMPL_TYPE_EXEC}}

\* C10 as stated: a bare Exec or Xlat template whose expansion fails ends the
\* walk with a failure, its negate flag not applied
C10_ExpansionFailureFails ==
    \A i \in BareExpansions :
        trace[i].xlen[1] < 0 =>
            /\ i = Len(trace)
            /\ pc = "done"
            /\ ret < 0

(***************************************************************************)
(* Properties of the evaluation of a map.                                  *)
(***************************************************************************)
\* the steps of the walker that evaluated a map of an attribute, not handed to
\* the legacy pair comparator, against a literal, on a request where the
\* attribute has instances
AttrLiteralSteps ==
    {i \in 1..Len(trace) :
        /\ NodeAt(tree, trace[i].c).type = COND_TYPE_MAP
        /\ NodeAt(tree, trace[i].c).pass2_fixup = PASS2_FIXUP_NONE
        /\ NodeAt(tree, trace[i].c).map.lhs.type = TMPL_TYPE_ATTR
        /\ NodeAt(tree, trace[i].c).map.rhs.type = TMPL_TYPE_DATA
        /\ tmpl_cursor_init(request, NodeAt(tree, trace[i].c).map.lhs).err = 0}

\* the instances of the attribute on the left of the map of step i
InstancesOf(i) == tmpl_cursor_init(request, NodeAt(tree, trace[i].c).map.lhs).vps

\* what the comparison of instance k alone against the literal gives
OneInstance(i, k) ==
    cond_normalise_and_cmp(EvalState(<<>>, <<>>), request, NodeAt(tree, trace[i].c),
                           InstancesOf(i)[k], Oracle(<<>>, <<>>, 0)).rcode

\* the comparison of two numbers
NumHolds(op, a, b) ==
    CASE op = T_OP_CMP_EQ -> a = b
      [] op = T_OP_NE -> a # b
      [] op = T_OP_LT -> a < b
      [] op = T_OP_GT -> a > b
      [] op = T_OP_LE -> a <= b
      [] op = T_OP_GE -> a >= b

\* C7: a map of an attribute with instances against a literal is true exactly
\* when some instance satisfies the comparison and false when none does, no
\* cast or comparison failing; the instances after the first that satisfies it
\* are not compared
C7_Existential ==
    \A i \in AttrLiteralSteps :
        LET n == Len(InstancesOf(i))
            node == NodeAt(tree, trace[i].c)
        IN  /\ (\A k \in 1..n : OneInstance(i, k) >= 0) =>
                  /\ trace[i].own \in {0, 1}
                  /\ trace[i].own = 1 <=> \E k \in 1..n : OneInstance(i, k) = 1
            /\ trace[i].own = 1 =>
                  /\ trace[i].nnorm \in 1..n
                  /\ OneInstance(i, trace[i].nnorm) = 1
                  /\ \A k \in 1..(trace[i].nnorm - 1) : OneInstance(i, k) = 0
            /\ trace[i].own = 0 => trace[i].nnorm = n
            /\ (node.map.lhs.da = "Num" /\ IsUint(node.map.rhs.value.type)) =>
                  \A k \in 1..n :
                      OneInstance(i, k) =
                          IF NumHolds(node.map.op, InstancesOf(i)[k].num,
                                      node.map.rhs.value.num) THEN 1 ELSE 0

\* the attribute has the instances 1, 2, 3 and is compared with == 2: the map
\* is true and the third instance was not compared
C7_Witness ==
    \E i \in AttrLiteralSteps :
        /\ NodeAt(tree, trace[i].c).map.op = T_OP_CMP_EQ
        /\ NodeAt(tree, trace[i].c).map.lhs.da = "Num"
        /\ NodeAt(tree, trace[i].c).map.rhs.value = NumBox(FR_TYPE_UINT32, 2)
        /\ Len(InstancesOf(i)) = 3
        /\ \A k \in 1..3 : InstancesOf(i)[k].num = k
        /\ trace[i].own = 1
        /\ trace[i].nnorm = 2

\* C8 as stated: cond_eval returns 1, 0 or -1, never -2
C8_OnlyFatalSentinel == pc = "done" => ret \in {1, 0, -1}

\* the map evaluated by the last step of the walker
LastMapNode == NodeAt(tree, trace[Len(trace)].c)
LastIsMap == trace # <<>> /\ LastMapNode.type = COND_TYPE_MAP

\* the last map looked up its left attribute or list on a request that has no
\* instance of it; its right side is no expansion, which could fail first
LeftLookupNone ==
    /\ LastIsMap
    /\ LastMapNode.map.lhs.type \in {TMPL_TYPE_ATTR, TMPL_TYPE_LIST}
    /\ ~(LastMapNode.pass2_fixup = PASS2_PAIRCOMPARE /\ LastMapNode.map.op # T_OP_REG_EQ)
    /\ ~IsExpansion(LastMapNode.map.rhs)
    /\ tmpl_cursor_init(request, LastMapNode.map.lhs).vps = <<>>

\* the last map has an attribute on one side of which the request has no
\* instance
LookupNone ==
    /\ LastIsMap
    /\ \/ /\ LastMapNode.map.lhs.type \in {TMPL_TYPE_ATTR, TMPL_TYPE_LIST}
          /\ tmpl_cursor_init(request, LastMapNode.map.lhs).vps = <<>>
       \/ /\ LastMapNode.map.rhs.type = TMPL_TYPE_ATTR
          /\ tmpl_cursor_init(request, LastMapNode.map.rhs).vps = <<>>

\* the left template of the last map was expanded a second time, for the
\* comparison, and that expansion failed
LeftExpansionFailed ==
    /\ LastIsMap
    /\ Len(trace[Len(trace)].xlen) = 2
    /\ trace[Len(trace)].xlen[2] < 0

\* C8: cond_eval returns 1, 0 or a negative failure value, which is not
\* always -1: the code the lookup of a map's attribute or list operand reports
\* when it finds no instance is returned as it is, and so is the negative
\* value a failed expansion of a map's left operand gives at the comparison;
\* every other failure is returned as -1
C8_CollaboratorCodeReturned ==
    pc = "done" =>
        /\ ret \in {1, 0} \/ ret < 0
        /\ LeftLookupNone => ret = request.none
        /\ LeftExpansionFailed => ret = trace[Len(trace)].xlen[2]
        /\ ret < -1 => \/ LookupNone /\ ret = request.none
                       \/ LeftExpansionFailed

\* the request has no instance of the attribute on the left of a map and the
\* lookup reports -2: cond_eval returns -2
C8_Witness ==
    /\ pc = "done"
    /\ ret = -2
    /\ LeftLookupNone
    /\ LastMapNode.map.lhs.type = TMPL_TYPE_ATTR
    /\ request.none = -2

\* the steps of the walker that evaluated a map
MapSteps == {i \in 1..Len(trace) : NodeAt(tree, trace[i].c).type = COND_TYPE_MAP}

MapOf(i) == NodeAt(tree, trace[i].c).map

\* every comparison made at step i had both operands in the type t, which was
\* the comparison type in force
ComparedIn(i, t) ==
    \A k \in 1..Len(trace[i].cmps) :
        /\ trace[i].cmps[k].l.type = t
        /\ trace[i].cmps[k].r.type = t

\* C11: in a map where one operand carries an explicit cast and the other is
\* an attribute reference without one, every comparison is made in the type of
\* the cast, whichever side carries it
C11_ExplicitCastWins ==
    \A i \in MapSteps :
        /\ (MapOf(i).lhs.cast # FR_TYPE_INVALID /\ MapOf(i).rhs.cast = FR_TYPE_INVALID
            /\ tmpl_is_attr(MapOf(i).rhs))
              => ComparedIn(i, MapOf(i).lhs.cast)
        /\ (MapOf(i).rhs.cast # FR_TYPE_INVALID /\ MapOf(i).lhs.cast = FR_TYPE_INVALID
            /\ tmpl_is_attr(MapOf(i).lhs))
              => ComparedIn(i, MapOf(i).rhs.cast)

\* the steps that evaluated the map "010" == "10" of two literal strings
LiteralDigitSteps ==
    {i \in MapSteps :
        /\ MapOf(i).lhs = DataT(StrBox(<<"0", "1", "0">>))
        /\ MapOf(i).rhs = DataT(StrBox(<<"1", "0">>))
        /\ MapOf(i).op = T_OP_CMP_EQ}

\* C12: the literal string "010" compared for equality with the literal
\* string "10" gives false: both literals are realized and compared as the
\* strings they are, in one comparison made by cond_eval_map itself
C12_LiteralDigitsAsStrings ==
    \A i \in LiteralDigitSteps :
        /\ trace[i].own = 0
        /\ Len(trace[i].cmps) = 1
        /\ trace[i].cmps[1].fast
        /\ trace[i].cmps[1].l = StrBox(<<"0", "1", "0">>)
        /\ trace[i].cmps[1].r = StrBox(<<"1", "0">>)
        /\ trace[i].nnorm = 0

\* "010" == "10" was evaluated, not negated, and cond_eval returned false
C12_Witness ==
    \E i \in LiteralDigitSteps :
        /\ ~NodeAt(tree, trace[i].c).negate
        /\ pc = "done"
        /\ ret = 0

\* C12 as stated: the literal string "010" compared for equality with the
\* literal string "10", no cast and no attribute involved, gives true
C12_LiteralDigitsAsNumbers ==
    \A i \in MapSteps :
        (/\ MapOf(i).lhs = DataT(StrBox(<<"0", "1", "0">>))
         /\ MapOf(i).rhs = DataT(StrBox(<<"1", "0">>))
         /\ MapOf(i).op = T_OP_CMP_EQ)
          => trace[i].own = 1

\* C13: when the evaluation of a map returns, every value an expansion
\* produced during it has been released, whatever the exit path, and no
\* literal of the tree has been released
C13_ExpansionsReleased ==
    \A i \in MapSteps : trace[i].live = 0

(***************************************************************************)
(* Two requests evaluate the same tree.  Each has its own request, return  *)
(* code, capture slots and walker (the locals of its call of cond_eval);   *)
(* the tree is the one thing they share.  One of the two runs at a time:   *)
(* its state is in the variables of the walker, the state of the one that  *)
(* waits is in other, and Switch hands over between two steps.  mixed      *)
(* records that a hand-over was made while both were inside cond_eval.     *)
(***************************************************************************)
\* the request, return code and capture slots of each of the two requests
TwoRequest(id) ==
    IF id = 1
    THEN Request([NoPairs EXCEPT !["Num"] = <<NumBox(FR_TYPE_UINT32, 2)>>,
                                 !["Str"] = <<StrBox(<<"a">>)>>], -1)
    ELSE Request([NoPairs EXCEPT !["Num"] = <<NumBox(FR_TYPE_UINT32, 1)>>,
                                 !["Str"] = <<StrBox(<<"b">>)>>], -2)
TwoModreturn(id) == IF id = 1 THEN "ok" ELSE "reject"
TwoCaptures(id) == IF id = 1 THEN <<>> ELSE <<<<"r">>>>

\* the leaves of the trees the two requests evaluate: no expansion, so that
\* what a request gives depends on the request and the tree only
TwoLeaves ==
    {TrueC(FALSE), FalseC(TRUE), RcodeC(FALSE, "ok"), TmplC(FALSE, AttrT("Virt")),
     MapC(FALSE, PASS2_FIXUP_NONE,
          Map(AttrT("Num"), T_OP_CMP_EQ, DataT(NumBox(FR_TYPE_UINT32, 2)))),
     MapC(TRUE, PASS2_FIXUP_NONE,
          Map(DataT(StrBox(<<"a">>)), T_OP_LT, DataT(StrBox(<<"b">>)))),
     MapC(FALSE, PASS2_FIXUP_NONE, Map(AttrT("Str"), T_OP_REG_EQ, RegexT(<<".">>)))}

\* the state of the request id that has not yet entered cond_eval
Waiting(id, t) ==
    [id |-> id, tree0 |-> t, mixed |-> FALSE, request |-> TwoRequest(id),
     modreturn |-> TwoModreturn(id), captures |-> TwoCaptures(id), c |-> <<1>>,
     rcode |-> -1, depth |-> 0, pc |-> "run", ret |-> -1, trace |-> <<>>,
     exits |-> <<>>, rxlog |-> <<>>]

InitTwo ==
    /\ tree \in Trees(TwoLeaves) \cup IllFormedTrees
    /\ request = TwoRequest(1)
    /\ modreturn = TwoModreturn(1)
    /\ captures = TwoCaptures(1)
    /\ Entry
    /\ other = Waiting(2, tree)

\* both requests are inside cond_eval: each has made a step and none is done
BothInside == pc = "run" /\ other.pc = "run" /\ trace # <<>> /\ other.trace # <<>>

\* the request that runs is suspended and the other one goes on
Switch ==
    /\ other.pc = "run"
    /\ other' = [id |-> 3 - other.id, tree0 |-> other.tree0,
                 mixed |-> other.mixed \/ BothInside, request |-> request,
                 modreturn |-> modreturn, captures |-> captures, c |-> c,
                 rcode |-> rcode, depth |-> depth, pc |-> pc, ret |-> ret,
                 trace |-> trace, exits |-> exits, rxlog |-> rxlog]
    /\ request' = other.request
    /\ modreturn' = other.modreturn
    /\ captures' = other.captures
    /\ c' = other.c
    /\ rcode' = other.rcode
    /\ depth' = other.depth
    /\ pc' = other.pc
    /\ ret' = other.ret
    /\ trace' = other.trace
    /\ exits' = other.exits
    /\ rxlog' = other.rxlog
    /\ UNCHANGED tree

NextTwo == Next \/ Switch

SpecTwo == InitTwo /\ [][NextTwo]_vars

\* the evaluation of one request alone, from the entry of cond_eval to its
\* return: w is the walker (its node, rcode, depth and the capture slots)
Alone(id) ==
    [request |-> TwoRequest(id), modreturn |-> TwoModreturn(id),
     captures |-> TwoCaptures(id), c |-> <<1>>, rcode |-> -1, depth |-> 0,
     done |-> FALSE, ret |-> -1]

AloneNode(t, w, node) ==
    CASE node.type = COND_TYPE_TRUE -> Result(1, EvalState(w.captures, <<>>))
      [] node.type = COND_TYPE_FALSE -> Result(0, EvalState(w.captures, <<>>))
      [] node.type = COND_TYPE_RCODE ->
            Result(IF node.rcode = w.modreturn THEN 1 ELSE 0, EvalState(w.captures, <<>>))
      [] node.type = COND_TYPE_TMPL ->
            Result(cond_eval_tmpl(w.request, node.vpt, ExpFail(-1)), EvalState(w.captures, <<>>))
      [] node.type = COND_TYPE_MAP ->
            cond_eval_map(EvalState(w.captures, <<>>), w.request, node,
                          Oracle(<<>>, <<>>, 0))

AloneMoved(w, caps, a) ==
    [w EXCEPT !.c = a.c, !.depth = a.depth, !.rcode = a.rcode, !.captures = caps,
              !.done = a.done \/ a.c = NULL,
              !.ret = IF a.done \/ a.c = NULL THEN a.rcode ELSE @]

AloneAfter(t, w, r) ==
    IF r.rcode < 0
    THEN [w EXCEPT !.captures = r.st.captures, !.rcode = r.rcode, !.done = TRUE,
                   !.ret = r.rcode]
    ELSE AloneMoved(w, r.st.captures,
                    WhileNoNext(t, w.c, Negated(NodeAt(t, w.c), r.rcode), w.depth, <<>>))

AloneStep(t, w) ==
    IF NodeAt(t, w.c).type \notin EvalTypes THEN [w EXCEPT !.done = TRUE, !.ret = -1]
    ELSE IF NodeAt(t, w.c).type # COND_TYPE_CHILD
         THEN AloneAfter(t, w, AloneNode(t, w, NodeAt(t, w.c)))
    ELSE IF NodeAt(t, w.c).child = <<>>
         THEN [w EXCEPT !.c = NULL, !.depth = w.depth + 1, !.done = TRUE, !.ret = w.rcode]
    ELSE [w EXCEPT !.c = ChildOf(w.c), !.depth = w.depth + 1]

RECURSIVE AloneRun(_, _)
AloneRun(t, w) == IF w.done THEN w ELSE AloneRun(t, AloneStep(t, w))

\* what a request got: the verdict and the capture slots at the return
Got(r, caps) == [ret |-> r, captures |-> caps]
GotAlone(w) == Got(w.ret, w.captures)

\* C14: while two requests evaluate the same tree, their steps interleaved in
\* any order, the tree is never modified or released, and each request
\* returns the verdict and is left with the capture slots it gets when it
\* evaluates the tree alone
C14_Isolation ==
    /\ tree = other.tree0
    /\ pc = "done" => Got(ret, captures) = GotAlone(AloneRun(other.tree0, Alone(3 - other.id)))
    /\ other.pc = "done" =>
          Got(other.ret, other.captures) = GotAlone(AloneRun(other.tree0, Alone(other.id)))

\* both requests returned after their steps were interleaved, with different
\* verdicts and different capture slots, one of them set by a regex match
C14_Witness ==
    /\ pc = "done"
    /\ other.pc = "done"
    /\ other.mixed
    /\ Len(trace) >= 2
    /\ Len(other.trace) >= 2
    /\ ret # other.ret
    /\ captures # other.captures
    /\ rxlog # <<>>
    /\ other.rxlog # <<>>
    /\ \E i \in MapSteps : MapOf(i).rhs.type = TMPL_TYPE_DATA

\* the steps that evaluated a map flagged PairCompare for which the legacy
\* pair comparator reported a failure
PairCmpFailedSteps ==
    {i \in MapSteps : /\ NodeAt(tree, trace[i].c).pass2_fixup = PASS2_PAIRCOMPARE
                      /\ \E k \in 1..Len(trace[i].pcmps) : trace[i].pcmps[k] < 0}

\* C15: a failure of the legacy pair comparator aborts the walk with the
\* failure outcome: the map is not false, and negation does not make it true
C15_PairCmpFailureAborts ==
    \A i \in PairCmpFailedSteps :
        /\ trace[i].own < 0
        /\ trace[i].res < 0
        /\ i = Len(trace)
        /\ pc = "done"
        /\ ret < 0

\* the steps that evaluated the map &Num op &Str on a request that has both
NumStrSteps ==
    {i \in MapSteps : /\ MapOf(i).lhs = AttrT("Num")
                      /\ MapOf(i).rhs = AttrT("Str")
                      /\ request.pairs["Num"] # <<>>
                      /\ request.pairs["Str"] # <<>>}

\* the instance k of Str cannot be cast to the type of Num, and no instance
\* before it compares true with the first instance of Num
FailsAt(op, k) ==
    /\ fr_value_box_cast(FR_TYPE_UINT32, request.pairs["Str"][k]) = FAILBOX
    /\ \A j \in 1..(k - 1) :
          \/ fr_value_box_cast(FR_TYPE_UINT32, request.pairs["Str"][j]) = FAILBOX
          \/ fr_value_box_cmp_op(op, request.pairs["Num"][1],
                                 fr_value_box_cast(FR_TYPE_UINT32,
                                                   request.pairs["Str"][j])) = 0

\* a later instance of Str compares true with the first instance of Num
MatchesAfter(op, k) ==
    \E j \in (k + 1)..Len(request.pairs["Str"]) :
        /\ fr_value_box_cast(FR_TYPE_UINT32, request.pairs["Str"][j]) # FAILBOX
        /\ fr_value_box_cmp_op(op, request.pairs["Num"][1],
                               fr_value_box_cast(FR_TYPE_UINT32,
                                                 request.pairs["Str"][j])) = 1

\* C16: when the iteration over the instances of a right-hand attribute
\* reaches one that cannot be cast, no earlier one having matched, the map
\* evaluation fails, whatever the later instances are
C16_RhsCastFailureFails ==
    \A i \in NumStrSteps :
        (\E k \in 1..Len(request.pairs["Str"]) : FailsAt(MapOf(i).op, k))
            => /\ trace[i].own = -1
               /\ pc = "done"
               /\ ret = -1

\* the first instance of Str could not be cast, the second one would have
\* matched, and the map evaluation failed
C16_Witness ==
    \E i \in NumStrSteps :
        /\ FailsAt(MapOf(i).op, 1)
        /\ MatchesAfter(MapOf(i).op, 1)
        /\ trace[i].own = -1
        /\ Len(trace[i].cmps) = 0
        /\ ret = -1

\* the walker, holding r as the result of the node at p, short-circuits
ShortCircuits(p, r) ==
    \/ FollowedBy(p, COND_TYPE_AND) /\ r = 0
    \/ FollowedBy(p, COND_TYPE_OR) /\ r = 1

\* the nodes after the one at p in its chain
LaterInChain(p) ==
    {q \in RealNodes : ParentOf(q) = ParentOf(p) /\ Len(q) = Len(p) /\ q[Len(q)] > p[Len(p)]}

\* the chain of the node at p ended with r: cond_eval returned r from the root
\* chain, or the walker went back up to the CHILD node of the chain with r
ChainEndedWith(p, r) ==
    IF ParentOf(p) = NULL THEN pc = "done" /\ ret = r
    ELSE \E j \in 1..Len(exits) : exits[j].c = ParentOf(p) /\ exits[j].sub = r

\* the walker left the whole chain of the node at p with r
LeftChain(p, r) ==
    /\ \A q \in LaterInChain(p) : ~Touched(q)
    /\ ChainEndedWith(p, r)

\* C17: when the walker holds false for a node followed by && (true for a
\* node followed by ||), it leaves the whole chain: no later node of the chain
\* is evaluated, whatever the markers further on, and the chain ends with the
\* result of that node.  The result of a CHILD node is the one the walker
\* holds when it is back at it
C17_ShortCircuitLeavesChain ==
    /\ \A i \in 1..Len(trace) :
          (trace[i].kind = "eval" /\ ShortCircuits(trace[i].c, trace[i].res))
              => LeftChain(trace[i].c, trace[i].res)
    /\ \A j \in 1..Len(exits) :
          ShortCircuits(exits[j].c, exits[j].used) => LeftChain(exits[j].c, exits[j].used)

\* A && B || C with A false: cond_eval returned false after A alone
C17_Witness ==
    /\ Len(tree) = 5
    /\ tree[2].type = COND_TYPE_AND
    /\ tree[4].type = COND_TYPE_OR
    /\ \A k \in {1, 3, 5} : tree[k].type # COND_TYPE_CHILD
    /\ Len(trace) = 1
    /\ trace[1].c = <<1>>
    /\ trace[1].res = 0
    /\ pc = "done"
    /\ ret = 0

(***************************************************************************)
(* cond_normalise_and_cmp on its own: called on a map node with a left     *)
(* value, as cond_eval_map calls it, for maps of every shape the parser    *)
(* gives: every kind of template on either side, with and without a cast   *)
(* on the left, with and without the PairCompare flag.                     *)
(***************************************************************************)
NormCasts == {FR_TYPE_INVALID, FR_TYPE_STRING, FR_TYPE_UINT32}
NormLhsTmpls ==
    {AttrT("Virt"), AttrT("Str"), DataT(NumBox(FR_TYPE_UINT32, 2)), DataT(StrBox(<<"2">>)),
     XlatT({ExpOk(<<"2">>)})}
NormRhsTmpls ==
    {AttrT("Num"), AttrT("Str"), DataT(NumBox(FR_TYPE_UINT32, 2)), DataT(StrBox(<<"2">>)),
     XlatT({ExpOk(<<"2">>)})}
NormRegexTmpls == {RegexT(<<"2">>), RegexXlatT({ExpOk(<<"2">>)})}

\* a regex operator has a regex on the right; PairCompare has an attribute on
\* the left
NormMaps ==
    {Map(WithCast(l, ct), T_OP_CMP_EQ, r) : l \in NormLhsTmpls, ct \in NormCasts,
                                            r \in NormRhsTmpls}
    \cup {Map(WithCast(l, ct), T_OP_REG_EQ, r) : l \in NormLhsTmpls, ct \in NormCasts,
                                                 r \in NormRegexTmpls}
NormNodes ==
    {MapC(FALSE, PASS2_FIXUP_NONE, m) : m \in NormMaps}
    \cup {MapC(FALSE, PASS2_PAIRCOMPARE, m) : m \in {x \in NormMaps : tmpl_is_attr(x.lhs)}}

\* the left value the caller passes: an instance of the attribute, the
\* literal, the expanded string; none for PairCompare without a regex
NormLhsValues(node) ==
    IF node.pass2_fixup = PASS2_PAIRCOMPARE /\ node.map.op # T_OP_REG_EQ THEN {NULLBOX}
    ELSE IF tmpl_is_data(node.map.lhs) THEN {node.map.lhs.value}
    ELSE IF tmpl_is_attr(node.map.lhs) /\ DaType(node.map.lhs.da) = FR_TYPE_UINT32
         THEN {NumBox(FR_TYPE_UINT32, 2)}
    ELSE {StrBox(<<"2">>), StrBox(<<"a">>)}

InitNorm ==
    /\ tree \in {<<n>> : n \in NormNodes}
               \cup {<<n, OrC, MapC(FALSE, PASS2_FIXUP_NONE, m)>> :
                        n \in {x \in NormNodes : x.pass2_fixup = PASS2_PAIRCOMPARE},
                        m \in {x \in NormMaps : x.op = T_OP_REG_EQ /\ tmpl_is_attr(x.lhs)}}
    /\ request = Request([NoPairs EXCEPT !["Num"] = <<NumBox(FR_TYPE_UINT32, 2)>>,
                                         !["Str"] = <<StrBox(<<"2">>)>>], -1)
    /\ modreturn = "ok"
    /\ captures = <<>>
    /\ Entry
    /\ other = NoOther

\* cond_normalise_and_cmp is called on the current map node
Normalise ==
    /\ Running(COND_TYPE_MAP)
    /\ \E lhs \in NormLhsValues(NodeAt(tree, c)),
          rexp \in ExpSeqs(NodeAt(tree, c).map.rhs, 1),
          pcmp \in IF NodeAt(tree, c).pass2_fixup = PASS2_PAIRCOMPARE
                   THEN PairCmpAnswers ELSE {0} :
          AfterResult(NodeAt(tree, c).map.lhs, <<>>,
                      cond_normalise_and_cmp(St0, request, NodeAt(tree, c), lhs,
                                             Oracle(<<>>, rexp, pcmp)))

NextNorm == Normalise

SpecNorm == InitNorm /\ [][NextNorm]_vars

\* the rules that force a comparison type, in their order: when a rule
\* applies, and the type it gives
TypeRule(when, type) == [when |-> when, type |-> type]
TypeRules(node) ==
    <<TypeRule(node.map.op = T_OP_REG_EQ, FR_TYPE_STRING),
      TypeRule(node.pass2_fixup = PASS2_PAIRCOMPARE, DaType(node.map.lhs.da)),
      TypeRule(node.map.lhs.cast # FR_TYPE_INVALID, node.map.lhs.cast),
      TypeRule(node.map.lhs.type = TMPL_TYPE_ATTR, DaType(node.map.lhs.da)),
      TypeRule(node.map.rhs.type = TMPL_TYPE_ATTR, DaType(node.map.rhs.da)),
      TypeRule(node.map.lhs.type = TMPL_TYPE_DATA, node.map.lhs.value.type),
      TypeRule(node.map.rhs.type = TMPL_TYPE_DATA, node.map.rhs.value.type)>>

\* the rules that apply to the node
Applicable(node) == {k \in 1..Len(TypeRules(node)) : TypeRules(node)[k].when}

\* the first rule that applies decides
FirstRuleType(node) ==
    IF Applicable(node) = {} THEN FR_TYPE_INVALID
    ELSE TypeRules(node)[CHOOSE k \in Applicable(node) :
                             \A j \in Applicable(node) : k <= j].type

\* C18: the comparison type cond_normalise_and_cmp chooses is the one of the
\* first rule that applies, in the order: regex operator, PairCompare, left
\* cast, left attribute, right attribute, left literal, right literal
C18_TypePriority ==
    \A i \in MapSteps :
        trace[i].nnorm > 0 => trace[i].ntype = FirstRuleType(NodeAt(tree, trace[i].c))

\* a PairCompare map of a uint32 attribute with a cast to string on the left
\* was compared as uint32, and a regex map with a cast to uint32 on the left
\* of an attribute was compared as string
C18_Witness ==
    /\ Len(trace) = 2
    /\ NodeAt(tree, trace[1].c).pass2_fixup = PASS2_PAIRCOMPARE
    /\ MapOf(1).lhs.cast = FR_TYPE_STRING
    /\ MapOf(1).op # T_OP_REG_EQ
    /\ trace[1].nnorm = 1
    /\ trace[1].ntype = FR_TYPE_UINT32
    /\ MapOf(2).op = T_OP_REG_EQ
    /\ MapOf(2).lhs.cast = FR_TYPE_UINT32
    /\ trace[2].nnorm = 1
    /\ trace[2].ntype = FR_TYPE_STRING

\* the steps that evaluated a map of two expansions without a cast, the left
\* one giving "9" and the right one "10", with the operator <
NineTenSteps ==
    {i \in MapSteps :
        /\ MapOf(i).lhs \in {XlatT({ExpOk(<<"9">>)}), ExecT({ExpOk(<<"9">>)})}
        /\ MapOf(i).rhs = XlatT({ExpOk(<<"1", "0">>)})
        /\ MapOf(i).op = T_OP_LT}

\* C19: two expansions without a cast that give strings of digits are
\* compared as 64 bit integers: "9" < "10" is true
C19_ExpandedDigitsAsNumbers ==
    \A i \in NineTenSteps : trace[i].own = 1

\* the steps that evaluated a map whose left side is an Exec or Xlat template
LhsExpansionSteps ==
    {i \in MapSteps : MapOf(i).lhs.type \in {TMPL_TYPE_EXEC, TMPL_TYPE_XLAT}}

\* C20: in one evaluation of a map whose left side is an Exec or Xlat
\* template, the left template is expanded exactly once, whatever the right
\* side is
C20_LhsExpandedOnce ==
    \A i \in LhsExpansionSteps : trace[i].li = 1

\* the number of CHILD nodes that enclose the node at p
Enclosing(p) == Len(p) - 1

\* a chain is well formed when it is nodes separated by markers, every node of
\* a type cond_eval has a case for, and every CHILD node has a well formed chain
RECURSIVE WellFormed(_)
WellFormed(chain) ==
    /\ Len(chain) % 2 = 1
    /\ \A k \in 1..Len(chain) :
          IF k % 2 = 0 THEN chain[k].type \in {COND_TYPE_AND, COND_TYPE_OR}
          ELSE /\ chain[k].type \in EvalTypes
               /\ chain[k].type = COND_TYPE_CHILD => WellFormed(chain[k].child)

\* C21: the depth counter is the number of CHILD nodes that enclose the
\* current node, at every step and after every decrement on the way back up:
\* it is never negative, and over a well formed tree it is 0 when cond_eval
\* returns from the root chain
C21_DepthInvariant ==
    /\ depth >= 0
    /\ pc = "run" => depth = Enclosing(c)
    /\ \A j \in 1..Len(exits) :
          /\ exits[j].depth >= 0
          /\ exits[j].depth = Enclosing(exits[j].c)
    /\ (WellFormed(tree) /\ pc = "done" /\ ret >= 0) => depth = 0

\* the walker went down two CHILD nodes, evaluated a node at depth 2, came
\* back up through both, and cond_eval returned with depth 0
C21_Witness ==
    /\ pc = "done"
    /\ ret >= 0
    /\ depth = 0
    /\ \E i \in 1..Len(trace) : trace[i].kind = "eval" /\ Enclosing(trace[i].c) = 2
    /\ \E j \in 1..Len(exits) : exits[j].depth = 1
    /\ \E j \in 1..Len(exits) : exits[j].depth = 0

(***************************************************************************)
(* Regex maps that match, do not match and fail in every way, next to      *)
(* nodes of every other kind, on requests whose capture slots hold the     *)
(* captures of an earlier match.                                           *)
(***************************************************************************)
RegexSubjects == ExpFails \cup {ExpOk(<<"a">>), ExpOk(<<"!">>)}
RegexMaps ==
    {Map(l, T_OP_REG_EQ, r) :
        l \in {AttrT("Str"), XlatT(RegexSubjects),
               WithCast(XlatT({ExpOk(<<"2">>)}), FR_TYPE_UINT32)},
        r \in {RegexT(<<"a">>),
               RegexXlatT({ExpFail(-1), ExpOk(<<>>), ExpOk(<<"a">>), ExpOk(<<"2">>)})}}
RegexNodes == {MapC(b, PASS2_FIXUP_NONE, m) : b \in BOOLEAN, m \in RegexMaps}

\* nodes that are no regex map
PlainNodes ==
    {TrueC(FALSE), FalseC(TRUE), RcodeC(FALSE, "ok"), TmplC(FALSE, XlatT({ExpOk(<<"a">>)})),
     TmplC(FALSE, AttrT("Str")),
     MapC(FALSE, PASS2_FIXUP_NONE, Map(AttrT("Str"), T_OP_CMP_EQ, DataT(StrBox(<<"a">>)))),
     MapC(FALSE, PASS2_FIXUP_NONE, Map(XlatT({ExpOk(<<"a">>)}), T_OP_CMP_EQ,
                                       DataT(StrBox(<<"a">>)))),
     ChildC(FALSE, <<TrueC(FALSE)>>)}

RegexRequests ==
    {Request([NoPairs EXCEPT !["Str"] = t], -1) :
        t \in {<<>>, <<StrBox(<<"a">>)>>, <<StrBox(<<"2">>), StrBox(<<"!">>)>>,
               <<StrBox(<<"2">>), StrBox(<<"a">>)>>}}

InitRegex ==
    /\ tree \in {<<n>> : n \in RegexNodes}
               \cup {<<p, AndC, n>> : p \in PlainNodes, n \in RegexNodes}
               \cup {<<n, OrC, p>> : p \in PlainNodes, n \in RegexNodes}
               \cup IllFormedTrees
    /\ request \in RegexRequests
    /\ modreturn = "ok"
    /\ captures \in {<<>>, <<<<"r">>>>}
    /\ Entry
    /\ other = NoOther

SpecRegex == InitRegex /\ [][Next]_vars

\* the node is a map with the regex operator
IsRegexMap(node) == node.type = COND_TYPE_MAP /\ node.map.op = T_OP_REG_EQ

\* C22: the evaluation of a node that is no regex map leaves the capture
\* slots as they were, and so does a regex evaluation that fails (operand not
\* a string, pattern that does not compile, execution error); nothing changes
\* the slots between two steps
C22_CaptureFrame ==
    /\ \A i \in 1..Len(trace) :
          ~IsRegexMap(NodeAt(tree, trace[i].c)) => trace[i].after = trace[i].before
    /\ \A k \in 1..Len(rxlog) :
          rxlog[k].ret < 0 => rxlog[k].after = rxlog[k].before
    /\ \A i \in 1..(Len(trace) - 1) : trace[i + 1].before = trace[i].after
    /\ trace # <<>> => captures = trace[Len(trace)].after

\* on a request that holds the captures of an earlier match, a node that is
\* no regex map was evaluated and then a regex evaluation failed on an
\* execution error: the slots still hold those captures
C22_Witness ==
    /\ Len(trace) = 2
    /\ ~IsRegexMap(NodeAt(tree, trace[1].c))
    /\ trace[1].own = 1
    /\ trace[1].before = <<<<"r">>>>
    /\ IsRegexMap(NodeAt(tree, trace[2].c))
    /\ trace[2].own = -1
    /\ Len(rxlog) = 1
    /\ rxlog[1].ret = -1
    /\ rxlog[1].before = <<<<"r">>>>
    /\ captures = <<<<"r">>>>
    /\ pc = "done"

====
